---- MODULE Spec2Model ----
(***************************************************************************)
(* dx-ext: the watch loop with its pending sets and toolchain builds       *)
(* (main.rs) and the UI model App driven by EXMessage (app.rs).            *)
(*                                                                         *)
(* Conventions.  An Option<T> is a set with at most one element: None is   *)
(* {} and Some(v) is {v}.  An Instant is the token "instant": only whether *)
(* overall_start_time is set is observable here; the per-task instants,    *)
(* the instants and durations carried by BuildState, and the throbber's    *)
(* frame index are display data and are left out.  An f64 progress value   *)
(* is an integer count of 1/One, so that 1.0 is One; the sample values are *)
(* multiples of One/10 and every quotient taken below is exact.            *)
(***************************************************************************)
EXTENDS Integers, Sequences, FiniteSets, TLC

VARIABLES
  app,              \* the App struct (app.rs:19-30)
  PENDING_BUILDS,   \* static PENDING_BUILDS: set of ExtensionCrate
  PENDING_COPIES,   \* static PENDING_COPIES: set of EFile
  chan,             \* the mpsc channel from the notify callback to watch_loop
  cancelled,        \* the CancellationToken
  wpc,              \* where main / watch_loop / process_pending_events stands
  builds,           \* process_pending_events: the drained Vec of crates (as a set)
  copies,           \* process_pending_events: the drained Vec of files (as a set)
  bfut,             \* the build_crate future of each crate of the batch
  cfut,             \* the copy_file_to_dist future of each file of the batch
  orphans,          \* per crate: wasm-pack processes whose future was dropped
  rpc,              \* where a reset() that yields at its lock().await points stands
  src_file,         \* the file at the source path: None, or its content and mtime
  dest_file,        \* the file at the destination path: None, or its content
  mtime_supported,  \* whether Metadata::modified() is Ok on this platform
  now,              \* the clock the file system stamps writes with
  FILE_HASHES,      \* static FILE_HASHES, the entry of the source path
  FILE_TIMESTAMPS,  \* static FILE_TIMESTAMPS, the entry of the source path
  copy_ret,         \* history: what the last copy_file returned, whether source and
                    \* destination held the same content when it was called, and
                    \* whether the cached mtime was the source's mtime
  stamp_content,    \* history: the source content at hand when the entry of
                    \* FILE_TIMESTAMPS was last written
  enable_incremental_builds,  \* config.enable_incremental_builds
  crate_src_mtime,  \* newest mtime of the files under the crate's source directory,
                    \* UNIX_EPOCH when the directory is missing
  outputs,          \* mtimes of <crate>_bg.js and <crate>_bg.wasm in dist, None if missing
  bpc,              \* where build_crate stands
  attempts,         \* build_crate: attempts
  bret,             \* what build_crate returned last
  pt,               \* the locals of the task that reads the toolchain's stdout
  cb,               \* history: the last value given to progress_callback in this call,
                    \* whether the values so far never decreased and were all in [0,1]
  exits,            \* history: the exit of every toolchain process of this call
  spawns,           \* history: cmd.spawn() calls of this call
  stderr,           \* the pipe of the toolchain's stderr: what it holds, and whether
                    \* the toolchain is blocked in a write to it
  run,              \* history: the current run of all builds and copies, and the
                    \* one before it
  emitted,          \* log records the task has emitted: on_event calls so far
  forwarding,       \* the forwarding tasks spawned by on_event and not yet polled
  callback_lock,    \* the mutex of the log callback: its holder and its waiters
  delivered,        \* history: the records the log callback was called with, in order
  appended,         \* history: LogMessage messages App::update has handled
  tpc,              \* where the loop of Terminal::start stands
  screen,           \* the terminal: raw mode, alternate screen, cursor
  manager,          \* the ManganisBuildManager, with the history of its calls
  build_mode,       \* config.build_mode as main sets it: options.mode of the command line
  held,             \* per shared mutex: the task that holds its guard, or "free"
  lpc,              \* per task: the lock and drop statements of the function it
                    \* runs, and the one it stands before
  timer,            \* time left until the next tick of pending_events, in units
                    \* of 1/TickPeriod of a second; 0 when a tick is due
  since_event,      \* history: time since rx.recv() last returned an event, in
                    \* the same units, counted up to TickPeriod
  handled,          \* history: the event handle_event handled last, how many times in
                    \* a row (at most 2) with no other change of the pending sets,
                    \* and the pending sets after the first of these
  lastMsg,          \* history: the message App::update processed last
  everReset,        \* history: reset() has run at least once
  startedSinceReset,\* history: a Pending -> InProgress transition since the last reset
  synced,           \* history: no BuildProgress and no reset since the last UpdateTask
  resolvedByMsg     \* history: the tasks whose last UpdateTask since the last reset
                    \* carried Success or Failed

hist == <<lastMsg, everReset, startedSinceReset, synced, resolvedByMsg>>

watch == <<chan, cancelled, wpc, builds, copies, bfut, cfut, orphans, handled, timer, since_event>>

\* the state of the parts that run beside the UI model and the watch loop
disk == <<src_file, dest_file, mtime_supported, now, manager>>

cache == <<FILE_HASHES, FILE_TIMESTAMPS, copy_ret, stamp_content>>

crate_disk == <<enable_incremental_builds, crate_src_mtime, outputs>>

mutexes == <<held, lpc>>

builder == <<bpc, attempts, bret, pt, cb, exits, spawns, stderr>>

logging == <<emitted, forwarding, callback_lock, delivered>>
tui == <<appended, tpc, screen>>
ext == <<rpc, run, logging, tui, disk, cache, crate_disk, mutexes, build_mode, builder>>

vars == <<app, PENDING_BUILDS, PENDING_COPIES, watch, hist, ext>>

----------------------------------------------------------------------------
(* Enumerations *)

ExtensionCrate == {"Popup", "Background", "Content"}

EFile == {"Manifest", "IndexHtml", "IndexJs", "BackgroundScript", "ContentScript", "Assets"}

TaskStatus == {"Pending", "InProgress", "Success", "Failed"}

LogLevel == {"Debug", "Info", "Warn", "Error"}

BuildMode == {"Development", "Release"}

get_task_name(c) ==
  CASE c = "Popup" -> "Building Popup"
    [] c = "Background" -> "Building Background"
    [] c = "Content" -> "Building Content"

TaskNames == {get_task_name(c) : c \in ExtensionCrate}

----------------------------------------------------------------------------
(* Numbers *)

\* the f64 1.0
One == 3000

\* the f64 0.1 given to a started task that reported no progress yet
StartedProgress == One \div 10

\* f64 values carried by TaskProgress messages: -0.5, 1.5
ProgressValues == {0 - (One \div 2), One + (One \div 2)}

\* f64 values carried by BuildProgress messages: 0.5, 1.5
BuildProgressValues == {One \div 2, One + (One \div 2)}

clamp(x, lo, hi) == IF x < lo THEN lo ELSE IF x > hi THEN hi ELSE x

\* weight of a task that has no entry in task_history (map_or(1.0, ..))
DefaultWeight == 1

\* weight of a fresh TaskState; the field's declaration is not part of the
\* sources at hand, its default is the documented 1.0
TaskStateWeight == 1

----------------------------------------------------------------------------
(* Helpers on maps and options *)

None == {}
Some(v) == {v}
unwrap_or(o, d) == IF o = {} THEN d ELSE CHOOSE v \in o : TRUE

EmptyMap == [x \in {} |-> 0]

\* HashMap::insert
Put(m, k, v) == [x \in (DOMAIN m) \cup {k} |-> IF x = k THEN v ELSE m[x]]

RECURSIVE SumOver(_, _)
SumOver(S, m) ==
  IF S = {} THEN 0
  ELSE LET k == CHOOSE x \in S : TRUE IN m[k] + SumOver(S \ {k}, m)

\* Vec::drain(0..n)
DropFirst(s, n) == SubSeq(s, n + 1, Len(s))

Min(x, y) == IF x < y THEN x ELSE y

Max(x, y) == IF x > y THEN x ELSE y

----------------------------------------------------------------------------
(* The UI model: struct App and its methods (app.rs) *)

LOG_BUFFER_SIZE == 1000

\* TaskState::default(): status Pending, no progress
TaskStateDefault == [status |-> "Pending", progress |-> None, weight |-> TaskStateWeight]

Idle == [kind |-> "Idle", progress |-> 0]
Running(p) == [kind |-> "Running", progress |-> p]
Complete == [kind |-> "Complete", progress |-> 0]
Failed == [kind |-> "Failed", progress |-> 0]

\* App::new
AppNew ==
  [task_state |-> Idle, should_quit |-> FALSE,
   tasks |-> EmptyMap, task_history |-> EmptyMap, log_buffer |-> <<>>,
   scroll_offset |-> 0, user_scrolled |-> FALSE, max_logs |-> 0,
   overall_start_time |-> None]

\* read_config: the build mode it returns is always Development
read_config == [build_mode |-> "Development"]

\* contribution of one task to the overall progress
task_progress(a, n) ==
  LET status == a.tasks[n] IN
  CASE status \in {"Failed", "Success"} -> One
    [] status = "InProgress" ->
         IF n \in DOMAIN a.task_history
         THEN unwrap_or(a.task_history[n].progress, StartedProgress)
         ELSE StartedProgress
    [] status = "Pending" -> 0

\* App::calculate_overall_progress
calculate_overall_progress(a) ==
  IF DOMAIN a.tasks = {} THEN 0
  ELSE
    LET weights == [n \in DOMAIN a.task_history |-> a.task_history[n].weight]
        total_weight == SumOver(DOMAIN weights, weights)
        weight(n) == IF n \in DOMAIN a.task_history THEN a.task_history[n].weight ELSE DefaultWeight
        terms == [n \in DOMAIN a.tasks |-> weight(n) * task_progress(a, n)]
    IN IF total_weight = 0 THEN 0
       ELSE clamp(SumOver(DOMAIN terms, terms) \div total_weight, 0, One)

\* App::get_task_stats
get_task_stats(a) ==
  LET count(s) == Cardinality({n \in DOMAIN a.tasks : a.tasks[n] = s}) IN
  [total |-> Cardinality(DOMAIN a.tasks), pending |-> count("Pending"),
   in_progress |-> count("InProgress"), completed |-> count("Success"),
   failed |-> count("Failed")]

\* update_overall_state reporting Failed as soon as one task has failed
update_overall_state_failed_early(a) ==
  IF DOMAIN a.tasks = {} THEN [a EXCEPT !.task_state = Idle]
  ELSE
    LET stats == get_task_stats(a) IN
    IF stats.pending = 0 /\ stats.in_progress = 0 /\ stats.failed = 0
       /\ stats.completed = stats.total
      THEN [a EXCEPT !.task_state = Complete]
    ELSE IF stats.failed > 0
      THEN [a EXCEPT !.task_state = Failed]
    ELSE IF stats.in_progress > 0
      THEN [a EXCEPT !.task_state = Running(calculate_overall_progress(a))]
    ELSE IF stats.in_progress = 0 /\ stats.failed = 0 /\ stats.completed = 0
            /\ stats.pending = stats.total
      THEN [a EXCEPT !.task_state = Idle]
    ELSE [a EXCEPT !.task_state = Running(calculate_overall_progress(a))]

\* App::update_overall_state
update_overall_state(a) ==
  IF DOMAIN a.tasks = {} THEN [a EXCEPT !.task_state = Idle]
  ELSE
    LET stats == get_task_stats(a) IN
    IF stats.pending = 0 /\ stats.in_progress = 0 /\ stats.failed = 0
       /\ stats.completed = stats.total
      THEN [a EXCEPT !.task_state = Complete]
    ELSE IF stats.failed > 0 /\ stats.pending + stats.in_progress = 0
      THEN [a EXCEPT !.task_state = Failed]
    ELSE IF stats.in_progress > 0
      THEN [a EXCEPT !.task_state = Running(calculate_overall_progress(a))]
    ELSE IF stats.in_progress = 0 /\ stats.failed = 0 /\ stats.completed = 0
            /\ stats.pending = stats.total
      THEN [a EXCEPT !.task_state = Idle]
    ELSE [a EXCEPT !.task_state = Running(calculate_overall_progress(a))]

\* update_task that never records the overall start instant
update_task_without_overall_start(a, task_name, status) ==
  LET hist0 == IF task_name \in DOMAIN a.task_history THEN a.task_history
               ELSE Put(a.task_history, task_name, TaskStateDefault)
      ts == hist0[task_name]
      starting == ts.status = "Pending" /\ status = "InProgress"
      ending == ts.status = "InProgress" /\ status \in {"Success", "Failed"}
      ts1 == IF starting THEN [ts EXCEPT !.progress = Some(0)]
             ELSE IF ending THEN [ts EXCEPT !.progress = Some(One)]
             ELSE ts
  IN update_overall_state(
       [a EXCEPT !.task_history = Put(hist0, task_name, [ts1 EXCEPT !.status = status]),
                 !.tasks = Put(a.tasks, task_name, status)])

\* App::update_task; first one that leaves the task history alone
update_task_without_history(a, task_name, status) ==
  update_overall_state([a EXCEPT !.tasks = Put(a.tasks, task_name, status)])
update_task(a, task_name, status) ==
  LET hist0 == IF task_name \in DOMAIN a.task_history THEN a.task_history
               ELSE Put(a.task_history, task_name, TaskStateDefault)
      ts == hist0[task_name]
      starting == ts.status = "Pending" /\ status = "InProgress"
      ending == ts.status = "InProgress" /\ status \in {"Success", "Failed"}
      ts1 == IF starting THEN [ts EXCEPT !.progress = Some(0)]
             ELSE IF ending THEN [ts EXCEPT !.progress = Some(One)]
             ELSE ts
      start1 == IF starting /\ a.overall_start_time = None
                  THEN Some("instant") ELSE a.overall_start_time
  IN update_overall_state(
       [a EXCEPT !.task_history = Put(hist0, task_name, [ts1 EXCEPT !.status = status]),
                 !.tasks = Put(a.tasks, task_name, status),
                 !.overall_start_time = start1])

\* update_task_progress that reopens the task it gets a progress report for
update_task_progress_reopens(a, task_name, progress) ==
  LET a1 == IF task_name \in DOMAIN a.task_history
              THEN [a EXCEPT !.task_history[task_name].progress = Some(clamp(progress, 0, One)),
                             !.task_history[task_name].status = "InProgress",
                             !.tasks = Put(a.tasks, task_name, "InProgress")]
            ELSE a
  IN IF a1.task_state.kind = "Running"
       THEN [a1 EXCEPT !.task_state = Running(calculate_overall_progress(a1))]
     ELSE a1

\* update_task_progress that stores the value and leaves the overall progress stale
update_task_progress_no_recalc(a, task_name, progress) ==
  IF task_name \in DOMAIN a.task_history
    THEN [a EXCEPT !.task_history[task_name].progress = Some(clamp(progress, 0, One))]
  ELSE a

\* update_task_progress that stores the value as it comes
update_task_progress_unclamped(a, task_name, progress) ==
  LET a1 == IF task_name \in DOMAIN a.task_history
              THEN [a EXCEPT !.task_history[task_name].progress = Some(progress)]
            ELSE a
  IN IF a1.task_state.kind = "Running"
       THEN [a1 EXCEPT !.task_state = Running(calculate_overall_progress(a1))]
     ELSE a1

\* App::update_task_progress
update_task_progress(a, task_name, progress) ==
  LET a1 == IF task_name \in DOMAIN a.task_history
              THEN [a EXCEPT !.task_history[task_name].progress = Some(clamp(progress, 0, One))]
            ELSE a
  IN IF a1.task_state.kind = "Running"
       THEN [a1 EXCEPT !.task_state = Running(calculate_overall_progress(a1))]
     ELSE a1

\* App::add_log; first one that evicts the newest lines
add_log_evicting_newest(a, level, message) ==
  IF read_config.build_mode = "Release" /\ level = "Debug" THEN a
  ELSE
    LET pushed == Append(a.log_buffer, [level |-> level, message |-> message])
    IN IF Len(pushed) > LOG_BUFFER_SIZE
         THEN [a EXCEPT !.log_buffer = SubSeq(pushed, 1, a.max_logs)]
       ELSE [a EXCEPT !.log_buffer = pushed]
add_log(a, level, message) ==
  IF read_config.build_mode = "Release" /\ level = "Debug" THEN a
  ELSE
    LET pushed == Append(a.log_buffer, [level |-> level, message |-> message])
    IN IF Len(pushed) > LOG_BUFFER_SIZE
         THEN [a EXCEPT !.log_buffer = DropFirst(pushed, Len(pushed) - a.max_logs)]
       ELSE [a EXCEPT !.log_buffer = pushed]

\* the entries reset() puts into tasks and task_history
ResetTasks == [n \in TaskNames |-> "Pending"]
ResetHistory == [n \in TaskNames |-> TaskStateDefault]

\* App::reset, the App fields (the pending sets are written by the action)
reset(a) ==
  LET a1 == add_log([a EXCEPT !.log_buffer = <<>>], "Info", "Resetting application state...")
      a2 == [a1 EXCEPT !.tasks = EmptyMap, !.task_history = EmptyMap,
                       !.overall_start_time = Some("instant"),
                       !.task_state = Running(0),
                       !.user_scrolled = FALSE]
      a3 == add_log(a2, "Info", "Initializing tasks...")
      a4 == [a3 EXCEPT !.tasks = ResetTasks, !.task_history = ResetHistory]
  IN add_log(a4, "Info", "Reset complete, awaiting rebuild...")

----------------------------------------------------------------------------
(* App::update, one action per EXMessage (app.rs:217-262).  The render     *)
(* loop stops feeding messages once should_quit is set                     *)
(* (terminal.rs:104-115).                                                  *)

\* EXMessage::Keypress(KeyCode::Char('q'))
KeypressQuit ==
  /\ ~app.should_quit
  /\ app' = [app EXCEPT !.should_quit = TRUE]
  /\ lastMsg' = "Keypress_q"
  /\ UNCHANGED <<ext, watch, PENDING_BUILDS, PENDING_COPIES, everReset, startedSinceReset, synced, resolvedByMsg>>

\* EXMessage::Keypress(KeyCode::Char('r')): reset(), which also reseeds both
\* pending sets (app.rs:303-311)
KeypressReset ==
  /\ ~app.should_quit
  /\ app' = reset(app)
  /\ PENDING_BUILDS' = PENDING_BUILDS \cup ExtensionCrate
  /\ PENDING_COPIES' = PENDING_COPIES \cup EFile
  /\ lastMsg' = "Keypress_r"
  /\ everReset' = TRUE
  /\ startedSinceReset' = FALSE
  /\ synced' = FALSE
  /\ resolvedByMsg' = {}
  /\ UNCHANGED <<ext, watch>>

\* EXMessage::Mouse, EXMessage::Paste
MouseOrPaste ==
  /\ ~app.should_quit
  /\ lastMsg' = "Ignored"
  /\ UNCHANGED <<ext, watch, app, PENDING_BUILDS, PENDING_COPIES, everReset, startedSinceReset, synced, resolvedByMsg>>

\* EXMessage::Tick: advances the throbber frame, which is left out
Tick ==
  /\ ~app.should_quit
  /\ lastMsg' = "Tick"
  /\ UNCHANGED <<ext, watch, app, PENDING_BUILDS, PENDING_COPIES, everReset, startedSinceReset, synced, resolvedByMsg>>

\* EXMessage::BuildProgress(progress)
BuildProgress ==
  /\ ~app.should_quit
  /\ \E progress \in BuildProgressValues :
       app' = IF app.task_state.kind = "Running"
                THEN [app EXCEPT !.task_state = Running(progress)]
              ELSE app
  /\ lastMsg' = "BuildProgress"
  /\ synced' = FALSE
  /\ UNCHANGED <<ext, watch, PENDING_BUILDS, PENDING_COPIES, everReset, startedSinceReset, resolvedByMsg>>

\* EXMessage::UpdateTask(task_name, status)
UpdateTask ==
  /\ ~app.should_quit
  /\ \E task_name \in TaskNames, status \in TaskStatus :
       /\ app' = update_task(app, task_name, status)
       /\ lastMsg' = "UpdateTask"
       /\ startedSinceReset' =
            (startedSinceReset
             \/ ( /\ status = "InProgress"
                  /\ (task_name \in DOMAIN app.task_history
                        => app.task_history[task_name].status = "Pending")))
       /\ resolvedByMsg' = IF status \in {"Success", "Failed"}
                             THEN resolvedByMsg \cup {task_name}
                           ELSE resolvedByMsg \ {task_name}
  /\ synced' = TRUE
  /\ UNCHANGED <<ext, watch, PENDING_BUILDS, PENDING_COPIES, everReset>>

\* EXMessage::TaskProgress(task_name, progress)
TaskProgress ==
  /\ ~app.should_quit
  /\ \E task_name \in TaskNames, progress \in ProgressValues :
       /\ app' = update_task_progress(app, task_name, progress)
       /\ lastMsg' = "TaskProgress"
  /\ UNCHANGED <<ext, watch, PENDING_BUILDS, PENDING_COPIES, everReset, startedSinceReset, synced, resolvedByMsg>>

AppNext ==
  \/ KeypressQuit
  \/ KeypressReset
  \/ MouseOrPaste
  \/ Tick
  \/ BuildProgress
  \/ UpdateTask
  \/ TaskProgress


----------------------------------------------------------------------------
(* App::reset beside the watch loop.  reset() takes the lock of a pending  *)
(* set anew for every insert (app.rs:304, 310), and the watch loop's drain *)
(* takes the same locks on another task, so a drain can run between two    *)
(* inserts.  Here reset is stepped lock by lock.                           *)

\* ExtensionCrate::iter() followed by EFile::iter(): the inserts of reset() in order
ResetInserts ==
  <<"Popup", "Background", "Content",
    "Manifest", "IndexHtml", "IndexJs", "BackgroundScript", "ContentScript", "Assets">>

ResetIdle == [at |-> "idle", i |-> 0]

\* reset(), lines 292-302: everything before the first insert
reset_begin(a) ==
  LET a1 == add_log([a EXCEPT !.log_buffer = <<>>], "Info", "Resetting application state...")
      a2 == [a1 EXCEPT !.tasks = EmptyMap, !.task_history = EmptyMap,
                       !.overall_start_time = Some("instant"),
                       !.task_state = Running(0),
                       !.user_scrolled = FALSE]
  IN add_log(a2, "Info", "Initializing tasks...")

\* Keypress('r') arrives: reset() runs up to its first lock().await
ResetBegin ==
  /\ ~app.should_quit
  /\ rpc.at = "idle"
  /\ app' = reset_begin(app)
  /\ rpc' = [at |-> "insert", i |-> 1]
  /\ lastMsg' = "Keypress_r"
  /\ everReset' = TRUE
  /\ startedSinceReset' = FALSE
  /\ synced' = FALSE
  /\ resolvedByMsg' = {}
  /\ UNCHANGED <<PENDING_BUILDS, PENDING_COPIES, watch, logging, tui, run, disk, cache, crate_disk, mutexes, build_mode, builder>>

\* one turn of the loops of reset(): lock, insert, unlock; a crate is also
\* entered into tasks and task_history; the last insert is followed by the
\* closing log line
ResetInsert ==
  /\ rpc.at = "insert"
  /\ LET x == ResetInserts[rpc.i]
         a1 == IF x \in ExtensionCrate
                 THEN [app EXCEPT !.tasks = Put(app.tasks, get_task_name(x), "Pending"),
                                  !.task_history =
                                     Put(app.task_history, get_task_name(x), TaskStateDefault)]
               ELSE app
     IN /\ PENDING_BUILDS' = IF x \in ExtensionCrate THEN PENDING_BUILDS \cup {x}
                             ELSE PENDING_BUILDS
        /\ PENDING_COPIES' = IF x \in EFile THEN PENDING_COPIES \cup {x} ELSE PENDING_COPIES
        /\ app' = IF rpc.i = Len(ResetInserts)
                    THEN add_log(a1, "Info", "Reset complete, awaiting rebuild...")
                  ELSE a1
        /\ rpc' = IF rpc.i = Len(ResetInserts) THEN [at |-> "returned", i |-> 0]
                  ELSE [rpc EXCEPT !.i = rpc.i + 1]
  /\ UNCHANGED <<watch, logging, tui, run, hist, disk, cache, crate_disk, mutexes, build_mode, builder>>

\* update() returns to the render loop
ResetReturn ==
  /\ rpc.at = "returned"
  /\ rpc' = ResetIdle
  /\ UNCHANGED <<app, PENDING_BUILDS, PENDING_COPIES, watch, logging, tui, run, hist, disk, cache, crate_disk, mutexes, build_mode, builder>>

----------------------------------------------------------------------------
(* The watch loop and the one-shot build (main.rs) *)

\* bound: events the channel holds at once (the channel's capacity is 100)
MaxChan == 1

\* the period of pending_events, Duration::from_secs(1), in units of time
TickPeriod == 2

\* bound: orphaned toolchain processes of one crate alive at once
MaxOrphans == 1

\* A path of an FS event, described by what handle_event asks of it: the
\* markers found in it (".tmp", ".swp", "~" and ".git" anywhere in the path,
\* "~$" and ".git$" at its end), whether it contains "api", the crates whose
\* name it contains and the files whose watch path it contains; and whether it
\* is valid Unicode, so that Path::to_str is Some.
Path(markers, api, crates, files) ==
  [markers |-> markers, api |-> api, crates |-> crates, files |-> files, unicode |-> TRUE]

\* handle_event, the closure of its filter: the path contains .tmp, .swp or ~,
\* or ends with .git
is_noise(path) == path.markers \cap {".tmp", ".swp", "~", ".git$"} # {}

\* ./extension/popup/src/lib.rs
PopupSource == Path({}, FALSE, {"Popup"}, {})
\* ./extension/background_index.js
BackgroundIndex == Path({}, FALSE, {"Background"}, {"BackgroundScript", "IndexJs"})
\* ./extension/content/src/api.rs
ContentApi == Path({}, TRUE, {"Content"}, {})
\* ./extension/popup/src/.lib.rs.swp
PopupSwap == Path({".swp"}, FALSE, {"Popup"}, {})

\* ./extension/popup/src/caf<E9>.rs, a file name in Latin-1
PopupLatin1 == [Path({}, FALSE, {"Popup"}, {}) EXCEPT !.unicode = FALSE]

\* the FS events the watcher delivers (their paths)
Events ==
  {{PopupSource}, {BackgroundIndex}, {ContentApi}, {PopupSwap, PopupSource}, {PopupLatin1}}

\* path.to_str().unwrap_or_default(): the empty string for a path that is not
\* valid Unicode
to_str_or_default(path) ==
  IF path.unicode THEN path ELSE [path EXCEPT !.api = FALSE, !.crates = {}, !.files = {}]

\* events with a path that an editor or git writes beside the sources:
\* popup/src/lib.rs.tmp, popup/src/lib.rs~, popup/src/~lock.rs, popup/.git,
\* popup/.git/index; the second path of each is popup/src/lib.rs or
\* manifest.json
NoiseEvents ==
  {{Path(m, FALSE, {"Popup"}, {}), other} :
     m \in {{".tmp"}, {"~", "~$"}, {"~"}, {".git", ".git$"}, {".git"}},
     other \in {PopupSource, Path({}, FALSE, {}, {"Manifest"})}}

\* handle_event that leaves out the noisy paths of an event and reads the others
handle_event_builds_of_clean_paths(event) ==
  IF \E path \in event : ~is_noise(path) /\ to_str_or_default(path).api THEN ExtensionCrate
  ELSE UNION {to_str_or_default(path).crates : path \in {q \in event : ~is_noise(q)}}

\* handle_event: the crates it inserts into PENDING_BUILDS
handle_event_builds(event) ==
  IF \E path \in event : is_noise(path) THEN {}
  ELSE IF \E path \in event : to_str_or_default(path).api THEN ExtensionCrate
  ELSE UNION {to_str_or_default(path).crates : path \in event}

\* handle_event: the files it inserts into PENDING_COPIES
handle_event_copies(event) ==
  IF \E path \in event : is_noise(path) THEN {}
  ELSE UNION {to_str_or_default(path).files : path \in event}

\* handle_event on the pending sets: every insert it makes; first one that
\* removes what is already there
handle_event_toggling(event, pending) ==
  [builds |-> (pending.builds \cup handle_event_builds(event))
                \ (pending.builds \cap handle_event_builds(event)),
   copies |-> (pending.copies \cup handle_event_copies(event))
                \ (pending.copies \cap handle_event_copies(event))]
handle_event(event, pending) ==
  [builds |-> pending.builds \cup handle_event_builds(event),
   copies |-> pending.copies \cup handle_event_copies(event)]

\* no event handled since the pending sets were last changed by something else
NoHandled == [event |-> None, times |-> 0, once |-> [builds |-> {}, copies |-> {}]]

NoFutures(S) == [x \in S |-> "none"]

\* iteration orders of a drained HashSet: the model draws from the declaration
\* order and its reverse
CrateOrders == {<<"Popup", "Background", "Content">>, <<"Content", "Background", "Popup">>}
FileOrders ==
  {<<"Manifest", "IndexHtml", "IndexJs", "BackgroundScript", "ContentScript", "Assets">>,
   <<"Assets", "ContentScript", "BackgroundScript", "IndexJs", "IndexHtml", "Manifest">>}

\* the elements of order that come before x
Before(order, x) ==
  {order[i] : i \in {j \in 1..Len(order) : \E k \in (j + 1)..Len(order) : order[k] = x}}

\* try_join_all polled once over futures that resolve at their first poll: the
\* futures before the first failing one are Ok, the failing one is Err and the
\* ones after it are never polled; bad = "none" when none fails
FirstPollUntilErr(batch, order, bad) ==
  [x \in DOMAIN NoFutures(batch \cup {bad}) \ ({bad} \ batch) |->
     IF bad \notin batch THEN "ok"
     ELSE IF x = bad THEN "err"
     ELSE IF x \in Before(order, bad) THEN "ok"
     ELSE "unpolled"]

\* the futures of a batch over the whole enumeration ("none" outside the batch)
Futures(all, batch, f) == [x \in all |-> IF x \in batch THEN f[x] ELSE "none"]

\* the build side of the join has resolved: every build Ok, or one Err
BuildsResolved ==
  \/ \A k \in builds : bfut[k] = "ok"
  \/ \E k \in builds : bfut[k] = "err"

\* the notify callback: blocking_send of an event into the channel
FsEvent ==
  /\ wpc \notin {"start", "oneshot", "exited"}
  /\ Len(chan) < MaxChan
  /\ \E event \in Events : chan' = Append(chan, event)
  /\ UNCHANGED <<app, PENDING_BUILDS, PENDING_COPIES, cancelled, wpc, builds, copies,
                 bfut, cfut, orphans, hist, ext, timer, since_event, handled>>

\* main, Commands::Watch: hot_reload seeds both pending sets and spawns watch_loop
HotReload ==
  /\ wpc = "start"
  /\ PENDING_BUILDS' = PENDING_BUILDS \cup ExtensionCrate
  /\ PENDING_COPIES' = PENDING_COPIES \cup EFile
  /\ wpc' = "select"
  /\ handled' = NoHandled
  /\ UNCHANGED <<app, chan, cancelled, builds, copies, bfut, cfut, orphans, hist, ext, timer, since_event>>

\* main, Commands::Build: every crate and every file in one join
BuildCommand ==
  /\ wpc = "start"
  /\ builds' = ExtensionCrate
  /\ copies' = EFile
  /\ wpc' = "oneshot"
  /\ UNCHANGED <<app, PENDING_BUILDS, PENDING_COPIES, chan, cancelled, bfut, cfut,
                 orphans, hist, ext, timer, since_event, handled>>

\* hot_reload: Ctrl+C cancels the token
CtrlC ==
  /\ wpc \notin {"start", "oneshot", "oneshot_join", "exited"}
  /\ ~cancelled
  /\ cancelled' = TRUE
  /\ UNCHANGED <<app, PENDING_BUILDS, PENDING_COPIES, chan, wpc, builds, copies, bfut,
                 cfut, orphans, hist, ext, timer, since_event, handled>>

\* watch_loop, select arm cancel_token.cancelled(): break
WatchExit ==
  /\ wpc = "select"
  /\ cancelled
  /\ wpc' = "exited"
  /\ UNCHANGED <<app, PENDING_BUILDS, PENDING_COPIES, chan, cancelled, builds, copies,
                 bfut, cfut, orphans, hist, ext, timer, since_event, handled>>

\* time passes by one unit while the loop waits in its select; the time a
\* drain takes is the lateness DrainBuilds chooses for the next tick
TimePasses ==
  /\ wpc = "select"
  /\ timer > 0 \/ since_event < TickPeriod
  /\ timer' = Max(timer - 1, 0)
  /\ since_event' = Min(since_event + 1, TickPeriod)
  /\ UNCHANGED <<app, PENDING_BUILDS, PENDING_COPIES, chan, cancelled, wpc, builds, copies,
                 bfut, cfut, orphans, hist, ext, handled>>

\* the arm of rx.recv() without pending_events.reset()
RecvEventWithoutReset ==
  /\ wpc = "select"
  /\ chan # <<>>
  /\ LET after == handle_event(Head(chan), [builds |-> PENDING_BUILDS, copies |-> PENDING_COPIES])
     IN /\ PENDING_BUILDS' = after.builds
        /\ PENDING_COPIES' = after.copies
        /\ handled' = IF handled.event = Some(Head(chan))
                         THEN [handled EXCEPT !.times = Min(@ + 1, 2)]
                       ELSE [event |-> Some(Head(chan)), times |-> 1, once |-> after]
  /\ chan' = Tail(chan)
  /\ timer' = timer
  /\ since_event' = 0
  /\ UNCHANGED <<app, cancelled, wpc, builds, copies, bfut, cfut, orphans, hist, ext>>

\* watch_loop, select arm rx.recv(): handle_event, then the timer is reset
RecvEvent ==
  /\ wpc = "select"
  /\ chan # <<>>
  /\ LET after == handle_event(Head(chan), [builds |-> PENDING_BUILDS, copies |-> PENDING_COPIES])
     IN /\ PENDING_BUILDS' = after.builds
        /\ PENDING_COPIES' = after.copies
        /\ handled' = IF handled.event = Some(Head(chan))
                         THEN [handled EXCEPT !.times = Min(@ + 1, 2)]
                       ELSE [event |-> Some(Head(chan)), times |-> 1, once |-> after]
  /\ chan' = Tail(chan)
  /\ timer' = TickPeriod
  /\ since_event' = 0
  /\ UNCHANGED <<app, cancelled, wpc, builds, copies, bfut, cfut, orphans, hist, ext>>

\* watch_loop, select arm pending_events.tick(): process_pending_events begins
\* and drains PENDING_BUILDS
DrainBuilds ==
  /\ wpc = "select"
  /\ timer = 0
  /\ \E late \in 0..TickPeriod : timer' = TickPeriod - late
  /\ builds' = PENDING_BUILDS
  /\ PENDING_BUILDS' = {}
  /\ wpc' = "drain_copies"
  /\ handled' = NoHandled
  /\ UNCHANGED <<app, PENDING_COPIES, chan, cancelled, copies, bfut, cfut, orphans, hist, ext,
                 since_event>>

\* process_pending_events drains PENDING_COPIES and returns when both are empty
DrainCopies ==
  /\ wpc = "drain_copies"
  /\ copies' = PENDING_COPIES
  /\ PENDING_COPIES' = {}
  /\ wpc' = IF builds = {} /\ PENDING_COPIES = {} THEN "select" ELSE "poll"
  /\ handled' = NoHandled
  /\ UNCHANGED <<app, PENDING_BUILDS, chan, cancelled, builds, bfut, cfut, orphans, hist, ext, timer, since_event>>

\* the first poll of tokio::join!(try_join_all(builds), try_join_all(copies)):
\* every build_crate future is polled in turn and spawns wasm-pack, unless the
\* spawn of the first one fails, which ends the build side at once; every
\* copy_file_to_dist future runs to its end when polled, and the first Err
\* ends the copy side
FirstPoll ==
  /\ wpc \in {"poll", "oneshot"}
  /\ \E spawn_fails \in BOOLEAN, order \in CrateOrders :
       /\ spawn_fails => builds # {}
       /\ bfut' = IF spawn_fails
                    THEN Futures(ExtensionCrate, builds,
                                 [k \in builds |->
                                    IF Before(order, k) \cap builds = {} THEN "err"
                                    ELSE "unpolled"])
                  ELSE Futures(ExtensionCrate, builds, [k \in builds |-> "running"])
  /\ \E bad \in copies \cup {"none"}, order \in FileOrders :
       cfut' = Futures(EFile, copies, FirstPollUntilErr(copies, order, bad))
  /\ wpc' = IF wpc = "poll" THEN "join" ELSE "oneshot_join"
  /\ UNCHANGED <<app, PENDING_BUILDS, PENDING_COPIES, chan, cancelled, builds, copies,
                 orphans, hist, ext, timer, since_event, handled>>

\* a wasm-pack process of the batch exits with success: its future is Ok
BuildSucceeds ==
  /\ wpc \in {"join", "oneshot_join"}
  /\ ~BuildsResolved
  /\ \E k \in builds :
       /\ bfut[k] = "running"
       /\ bfut' = [bfut EXCEPT ![k] = "ok"]
  /\ UNCHANGED <<app, PENDING_BUILDS, PENDING_COPIES, chan, cancelled, wpc, builds,
                 copies, cfut, orphans, hist, ext, timer, since_event, handled>>

\* a wasm-pack process of the batch exits with failure: its future is Err,
\* try_join_all resolves and drops the futures still pending; their processes
\* are not killed (kill_on_drop is not set) and run on
BuildFails ==
  /\ wpc \in {"join", "oneshot_join"}
  /\ ~BuildsResolved
  /\ \E k \in builds :
       /\ bfut[k] = "running"
       /\ \A j \in builds \ {k} : bfut[j] = "running" => orphans[j] < MaxOrphans
       /\ bfut' = [j \in ExtensionCrate |->
                     IF j = k THEN "err"
                     ELSE IF bfut[j] = "running" THEN "dropped"
                     ELSE bfut[j]]
       /\ orphans' = [j \in ExtensionCrate |->
                        IF j # k /\ bfut[j] = "running" THEN orphans[j] + 1 ELSE orphans[j]]
  /\ UNCHANGED <<app, PENDING_BUILDS, PENDING_COPIES, chan, cancelled, wpc, builds,
                 copies, cfut, hist, ext, timer, since_event, handled>>

\* a wasm-pack process whose future was dropped exits
OrphanExits ==
  /\ \E k \in ExtensionCrate :
       /\ orphans[k] > 0
       /\ orphans' = [orphans EXCEPT ![k] = orphans[k] - 1]
  /\ UNCHANGED <<app, PENDING_BUILDS, PENDING_COPIES, chan, cancelled, wpc, builds,
                 copies, bfut, cfut, hist, ext, timer, since_event, handled>>

\* the join has resolved: the errors are logged and process_pending_events
\* returns to the select (main returns after the one-shot build)
DrainReturn ==
  /\ wpc \in {"join", "oneshot_join"}
  /\ BuildsResolved
  /\ wpc' = IF wpc = "join" THEN "select" ELSE "exited"
  /\ builds' = {}
  /\ copies' = {}
  /\ bfut' = NoFutures(ExtensionCrate)
  /\ cfut' = NoFutures(EFile)
  /\ UNCHANGED <<app, PENDING_BUILDS, PENDING_COPIES, chan, cancelled, orphans, hist, ext, timer, since_event, handled>>

Next ==
  \/ FsEvent
  \/ HotReload
  \/ BuildCommand
  \/ CtrlC
  \/ WatchExit
  \/ RecvEvent
  \/ DrainBuilds
  \/ DrainCopies
  \/ FirstPoll
  \/ BuildSucceeds
  \/ BuildFails
  \/ OrphanExits
  \/ DrainReturn
  \/ TimePasses

----------------------------------------------------------------------------
(* EFile::copy_file and its change-detection cache (efile.rs).  One source *)
(* path and its destination are followed; FILE_HASHES and FILE_TIMESTAMPS  *)
(* are the entries of that source path, None when the map has no entry.    *)

\* bound: the latest instant of the file system clock
MaxTime == 3

\* file contents; the first two have the same length
Contents == {"a", "b", "cc"}

\* Metadata::len
FileLen(content) == IF content = "cc" THEN 2 ELSE 1

\* calculate_file_hash: the blake3 digest of the content, taken as free of collisions
calculate_file_hash(content) == <<"blake3", content>>

\* Metadata::modified of the source
modified(file) == IF mtime_supported THEN Some(file.mtime) ELSE None

\* copy_file that trusts equal lengths and never hashes
copy_decision_by_length(src, dest, hashes, timestamps) ==
  [copy_needed |-> \/ dest = None
                   \/ \E c \in dest : FileLen(src.content) # FileLen(c),
   hashes |-> hashes, timestamps |-> timestamps, stamped |-> FALSE]

\* copy_file that compares contents whatever the cache holds
copy_decision_ignoring_cached_mtime(src, dest, hashes, timestamps) ==
  [copy_needed |-> \/ dest = None
                   \/ \E c \in dest : src.content # c,
   hashes |-> Some(calculate_file_hash(src.content)),
   timestamps |-> IF modified(src) # None THEN modified(src) ELSE timestamps,
   stamped |-> modified(src) # None]

\* copy_file, lines 79-144, for an existing source: copy_needed, the cache
\* entries afterwards, and whether timestamps.insert was executed
copy_decision(src, dest, hashes, timestamps) ==
  LET src_hash == calculate_file_hash(src.content)
      keep == [copy_needed |-> FALSE, hashes |-> hashes, timestamps |-> timestamps,
               stamped |-> FALSE]
  IN IF dest # None
       THEN LET dest_content == CHOOSE c \in dest : TRUE
                dest_hash == calculate_file_hash(dest_content)
            IN IF FileLen(src.content) # FileLen(dest_content)
                 THEN [keep EXCEPT !.copy_needed = TRUE]
               ELSE IF modified(src) # None
                 THEN IF timestamps # None /\ timestamps = modified(src)
                        THEN keep
                      ELSE IF src_hash # dest_hash
                        THEN [copy_needed |-> TRUE, hashes |-> Some(src_hash),
                              timestamps |-> modified(src), stamped |-> TRUE]
                      ELSE [keep EXCEPT !.timestamps = modified(src), !.stamped = TRUE]
               ELSE [copy_needed |-> src_hash # dest_hash, hashes |-> Some(src_hash),
                     timestamps |-> timestamps, stamped |-> FALSE]
     ELSE [copy_needed |-> TRUE, hashes |-> Some(src_hash),
           timestamps |-> IF modified(src) # None THEN modified(src) ELSE timestamps,
           stamped |-> modified(src) # None]

\* source and destination hold the same content
SameContent == src_file # None /\ dest_file # None /\ {f.content : f \in src_file} = dest_file

\* the destination exists with the length of the source, and FILE_TIMESTAMPS
\* holds the mtime the source has now
CachedMtimeHit ==
  /\ src_file # None /\ dest_file # None
  /\ \A f \in src_file, c \in dest_file :
       FileLen(f.content) = FileLen(c) /\ modified(f) # None /\ FILE_TIMESTAMPS = modified(f)

\* the run record before any run
NoRun ==
  [at |-> "none", fresh |-> TRUE, built |-> FALSE, filed |-> FALSE,
   spawned |-> FALSE, copied |-> FALSE, ok |-> TRUE, dirty |-> FALSE,
   after_ok |-> FALSE, prev_fresh |-> FALSE]

\* a file is written by something else than the run: noted once runs are recorded
Dirtied == IF run.at = "none" THEN run ELSE [run EXCEPT !.dirty = TRUE]

\* what the file system answers about the destination in one call: all reads
\* succeed, or fs::metadata fails (then dest.exists() is false as well), or the
\* content cannot be read by calculate_file_hash
DestReads == {"ok", "metadata fails", "content fails"}

\* whether copy_file reaches calculate_file_hash(dest): the destination exists
\* with the length of the source and no stored timestamp is the source's mtime
hashes_destination(src, dest, timestamps) ==
  /\ dest # None
  /\ \A c \in dest : FileLen(src.content) = FileLen(c)
  /\ ~(modified(src) # None /\ timestamps # None /\ timestamps = modified(src))

\* copy_file(src, dest) with the answers of the file system: whether the
\* destination can be read, and whether create_dir_all and fs::copy succeed
copy_file(dest_read, copy_succeeds) ==
  /\ IF src_file = None
       THEN /\ copy_ret' = [ret |-> "err", same |-> FALSE, hit |-> FALSE]
            /\ UNCHANGED <<dest_file, FILE_HASHES, FILE_TIMESTAMPS, stamp_content>>
     ELSE LET src == CHOOSE f \in src_file : TRUE
              seen == IF dest_read = "metadata fails" THEN None ELSE dest_file
              d == copy_decision(src, seen, FILE_HASHES, FILE_TIMESTAMPS)
          IN IF dest_read = "content fails" /\ hashes_destination(src, seen, FILE_TIMESTAMPS)
               THEN /\ copy_ret' = [ret |-> "err_dest", same |-> SameContent,
                                    hit |-> CachedMtimeHit]
                    /\ UNCHANGED <<dest_file, FILE_HASHES, FILE_TIMESTAMPS, stamp_content>>
             ELSE /\ FILE_HASHES' = d.hashes
                  /\ FILE_TIMESTAMPS' = d.timestamps
                  /\ dest_file' = IF d.copy_needed /\ copy_succeeds THEN Some(src.content)
                                  ELSE dest_file
                  /\ copy_ret' = [ret |-> IF ~d.copy_needed THEN "skipped"
                                          ELSE IF copy_succeeds THEN "copied"
                                          ELSE "err_copy",
                                  same |-> SameContent, hit |-> CachedMtimeHit]
                  /\ stamp_content' = IF d.stamped THEN Some(src.content) ELSE stamp_content
  /\ run' = IF run.at = "running"
              THEN [run EXCEPT !.filed = TRUE,
                               !.copied = copy_ret'.ret = "copied",
                               !.ok = @ /\ copy_ret'.ret \in {"copied", "skipped"}]
            ELSE run
  /\ UNCHANGED <<app, PENDING_BUILDS, PENDING_COPIES, watch, hist, logging, tui, rpc, src_file,
                 mtime_supported, manager, now, crate_disk, mutexes, build_mode, builder>>

\* copy_file on a file system that answers every call
CopyFile == copy_file("ok", TRUE)

\* copy_file on a file system that can fail
CopyFileAnyIo ==
  \E dest_read \in DestReads, copy_succeeds \in BOOLEAN : copy_file(dest_read, copy_succeeds)

\* the clock advances
ClockTick ==
  /\ now < MaxTime
  /\ now' = now + 1
  /\ UNCHANGED <<app, PENDING_BUILDS, PENDING_COPIES, watch, hist, logging, tui, rpc, run, src_file, dest_file,
                 mtime_supported, manager, cache, crate_disk, mutexes, build_mode, builder>>

\* the user saves the source file; its mtime is the instant of the write
WriteSource ==
  /\ \E content \in Contents : src_file' = Some([content |-> content, mtime |-> now])
  /\ run' = Dirtied
  /\ UNCHANGED <<app, PENDING_BUILDS, PENDING_COPIES, watch, hist, logging, tui, rpc, dest_file,
                 mtime_supported, manager, now, cache, crate_disk, mutexes, build_mode, builder>>

\* something else than copy_file writes the destination, or removes it (the
\* dist directory is cleaned)
WriteDest ==
  /\ \E d \in {None} \cup {Some(content) : content \in Contents} : dest_file' = d
  /\ run' = Dirtied
  /\ UNCHANGED <<app, PENDING_BUILDS, PENDING_COPIES, watch, hist, logging, tui, rpc, src_file,
                 mtime_supported, manager, now, cache, crate_disk, mutexes, build_mode, builder>>

CopyNext ==
  \/ CopyFile
  \/ ClockTick
  \/ WriteSource
  \/ WriteDest

CopyIoNext ==
  \/ CopyFileAnyIo
  \/ ClockTick
  \/ WriteSource
  \/ WriteDest

----------------------------------------------------------------------------
(* ExtensionCrate::build_crate with its rebuild decision, its retries and  *)
(* the task that turns the toolchain's stdout into progress (extcrate.rs). *)
(* One crate is followed.  The toolchain is the external wasm-pack: on a   *)
(* successful exit it has written <crate>_bg.js and <crate>_bg.wasm.       *)

MAX_ATTEMPTS == 3

\* bound: stdout lines the toolchain prints in one attempt
MaxLines == 3

\* UNIX_EPOCH
UNIX_EPOCH == 0

\* needs_rebuild; newest_source stays UNIX_EPOCH and oldest_target stays now()
\* where modification times cannot be read.  First the same with >= for > in
\* the last line
needs_rebuild_with_one_artifact(target_exists, src_mtime, out) ==
  LET newest_source == IF mtime_supported /\ src_mtime > UNIX_EPOCH THEN src_mtime
                       ELSE UNIX_EPOCH
      older(t, file) == IF mtime_supported /\ \E m \in file : m < t
                          THEN CHOOSE m \in file : TRUE ELSE t
      oldest_target == older(older(now, out.js), out.wasm)
  IN IF ~target_exists THEN TRUE
     ELSE IF out.js = None /\ out.wasm = None THEN TRUE
     ELSE newest_source > oldest_target

needs_rebuild_unless_older(target_exists, src_mtime, out) ==
  LET newest_source == IF mtime_supported /\ src_mtime > UNIX_EPOCH THEN src_mtime
                       ELSE UNIX_EPOCH
      older(t, file) == IF mtime_supported /\ \E m \in file : m < t
                          THEN CHOOSE m \in file : TRUE ELSE t
      oldest_target == older(older(now, out.js), out.wasm)
  IN IF ~target_exists THEN TRUE
     ELSE IF out.js = None \/ out.wasm = None THEN TRUE
     ELSE newest_source >= oldest_target
needs_rebuild(target_exists, src_mtime, out) ==
  LET newest_source == IF mtime_supported /\ src_mtime > UNIX_EPOCH THEN src_mtime
                       ELSE UNIX_EPOCH
      older(t, file) == IF mtime_supported /\ \E m \in file : m < t
                          THEN CHOOSE m \in file : TRUE ELSE t
      oldest_target == older(older(now, out.js), out.wasm)
  IN IF ~target_exists THEN TRUE
     ELSE IF out.js = None \/ out.wasm = None THEN TRUE
     ELSE newest_source > oldest_target

\* phase_patterns: the weight of each phase, and the sum of the weights before it
PhaseWeight(i) == (<<1, 4, 3, 2>>[i + 1] * One) \div 10
PhaseBase(i) == IF i = 0 THEN 0 ELSE (<<1, 5, 8>>[i] * One) \div 10

\* stdout lines by what the task asks of them: the patterns they match and
\* whether they contain "Compiling"
Line(matches, compiling) == [matches |-> matches, compiling |-> compiling]
StdoutLines ==
  {Line({0}, FALSE), Line({1}, TRUE), Line({1}, FALSE), Line({0, 1}, TRUE), Line({2}, FALSE),
   Line({3}, FALSE), Line({}, FALSE)}

\* what the pipe of stderr holds before a write blocks, in units of its
\* real capacity
PipeCapacity == 1

\* the pipe of a toolchain that has just been spawned
EmptyPipe == [buffered |-> 0, blocked |-> FALSE]

\* the locals of the progress task when it is spawned (lines 184-188)
ProgressTaskStart ==
  [current_phase |-> 0, last_progress |-> 0, phase_line_count |-> 0,
   compiled_items |-> 0, total_items_estimate |-> 50, lines |-> 0]

NoCallback == [last |-> None, monotone |-> TRUE, in_range |-> TRUE]

\* progress_callback(v), recorded
Emit(c, v) ==
  [last |-> Some(v),
   monotone |-> c.monotone /\ \A u \in c.last : u <= v,
   in_range |-> c.in_range /\ 0 <= v /\ v <= One]

Abs(x) == IF x < 0 THEN 0 - x ELSE x

\* one turn of the loop of the progress task (lines 191-227) on a line; elapsed
\* says whether more than 100 ms have passed since the last update; the result
\* holds the locals and the callback record afterwards
on_line(t, c, line, elapsed) ==
  LET compiled == IF line.compiling THEN t.compiled_items + 1 ELSE t.compiled_items
      estimate == IF line.compiling /\ compiled > t.total_items_estimate \div 2
                    THEN compiled * 2 ELSE t.total_items_estimate
      entered == {i \in line.matches : i > t.current_phase}
      moves == entered # {}
      phase == IF moves THEN CHOOSE i \in entered : \A j \in entered : i <= j
               ELSE t.current_phase
      last1 == IF moves THEN PhaseBase(phase) ELSE t.last_progress
      c1 == IF moves THEN Emit(c, last1) ELSE c
      count == (IF moves THEN 0 ELSE t.phase_line_count) + 1
      phase_progress ==
        IF phase = 1
          THEN Min((PhaseWeight(phase) * compiled) \div estimate, (PhaseWeight(phase) * 95) \div 100)
        ELSE Min((PhaseWeight(phase) * count) \div 25, (PhaseWeight(phase) * 95) \div 100)
      new_progress == PhaseBase(phase) + phase_progress
      updates == Abs(new_progress - last1) > One \div 100 \/ elapsed
  IN [t |-> [current_phase |-> phase,
             last_progress |-> IF updates THEN new_progress ELSE last1,
             phase_line_count |-> count,
             compiled_items |-> compiled,
             total_items_estimate |-> estimate,
             lines |-> t.lines + 1],
      c |-> IF updates THEN Emit(c1, new_progress) ELSE c1]

\* the condition of another attempt (line 271), the mutant first
retries_without_marker(success, has_file_lock_error, n) ==
  ~success /\ n < MAX_ATTEMPTS - 1
retries(success, has_file_lock_error, n) ==
  ~success /\ has_file_lock_error /\ n < MAX_ATTEMPTS - 1

\* build_crate is called (lines 88-129): progress 0.0, then the rebuild
\* decision when incremental builds are enabled; the target directory has
\* been created by then
BuildCrateCall ==
  /\ bpc = "idle"
  /\ LET should_build == IF enable_incremental_builds
                           THEN needs_rebuild(TRUE, crate_src_mtime, outputs)
                         ELSE TRUE
         c0 == Emit(NoCallback, 0)
     IN /\ cb' = IF should_build THEN c0 ELSE Emit(c0, One)
        /\ bpc' = IF should_build THEN "loop" ELSE "returned"
        /\ bret' = IF should_build THEN "none" ELSE "Ok(skipped)"
  /\ attempts' = 0
  /\ exits' = <<>>
  /\ spawns' = 0
  /\ pt' = ProgressTaskStart
  /\ stderr' = EmptyPipe
  /\ UNCHANGED <<app, PENDING_BUILDS, PENDING_COPIES, watch, hist, logging, tui, rpc, run, disk, cache, crate_disk, mutexes, build_mode>>

\* the top of the retry loop (lines 135-172): progress is set back to 0.0 on a
\* retry, then wasm-pack is spawned, or the spawn fails and build_crate returns
SpawnToolchain ==
  /\ bpc = "loop"
  /\ attempts < MAX_ATTEMPTS
  /\ spawns' = spawns + 1
  /\ \E spawned \in BOOLEAN :
       /\ bpc' = IF spawned THEN "running" ELSE "returned"
       /\ bret' = IF spawned THEN bret ELSE "Err(spawn)"
  /\ cb' = IF attempts > 0 THEN Emit(cb, 0) ELSE cb
  /\ pt' = ProgressTaskStart
  /\ stderr' = EmptyPipe
  /\ run' = IF run.at = "running" THEN [run EXCEPT !.spawned = TRUE] ELSE run
  /\ UNCHANGED <<app, PENDING_BUILDS, PENDING_COPIES, watch, hist, logging, tui, rpc, disk, cache, crate_disk, mutexes, build_mode,
                 attempts, exits>>

\* the toolchain prints a line on stdout and the progress task handles it
StdoutLine ==
  /\ bpc = "running"
  /\ pt.lines < MaxLines
  /\ \E line \in StdoutLines, elapsed \in BOOLEAN :
       LET r == on_line(pt, cb, line, elapsed)
       IN pt' = r.t /\ cb' = r.c
  /\ UNCHANGED <<app, PENDING_BUILDS, PENDING_COPIES, watch, hist, logging, tui, rpc, run, disk, cache, crate_disk, mutexes, build_mode,
                 bpc, attempts, bret, exits, spawns, stderr>>

\* the toolchain writes to stderr, which nothing reads before child.wait()
\* has returned (stderr is taken at line 170 and read at lines 245-263): the
\* write goes into the pipe while there is room, and blocks when it is full
StderrWrite ==
  /\ bpc = "running"
  /\ ~stderr.blocked
  /\ stderr' = IF stderr.buffered < PipeCapacity
                 THEN [stderr EXCEPT !.buffered = @ + 1]
               ELSE [stderr EXCEPT !.blocked = TRUE]
  /\ UNCHANGED <<app, PENDING_BUILDS, PENDING_COPIES, watch, hist, logging, tui, rpc, run, disk, cache, crate_disk, mutexes, build_mode,
                 bpc, attempts, bret, pt, cb, exits, spawns>>

\* child.wait() fails (lines 231-235): progress 1.0 and Err
WaitFails ==
  /\ bpc = "running"
  /\ cb' = Emit(cb, One)
  /\ bpc' = "returned"
  /\ bret' = "Err(wait)"
  /\ UNCHANGED <<app, PENDING_BUILDS, PENDING_COPIES, watch, hist, logging, tui, rpc, run, disk, cache, crate_disk, mutexes, build_mode,
                 attempts, pt, exits, spawns, stderr>>

\* the toolchain exits (lines 229-285), which it cannot do while it is blocked
\* in a write.  The progress task has read stdout to its end; progress 1.0; on success the outputs are there and build_crate
\* returns Ok; otherwise stderr is read, at most MAX_ERROR_LINES lines of it,
\* and a file lock message among them leads to another attempt if one is left
ToolchainExits ==
  /\ bpc = "running"
  /\ ~stderr.blocked
  /\ stderr' = EmptyPipe
  /\ \E success \in BOOLEAN, lock_message \in {"none", "within MAX_ERROR_LINES", "later"} :
       LET has_file_lock_error == lock_message = "within MAX_ERROR_LINES"
           retry == retries(success, has_file_lock_error, attempts)
       IN /\ success => lock_message = "none" /\ crate_src_mtime # UNIX_EPOCH
          /\ exits' = Append(exits, [success |-> success, lock_message |-> lock_message])
          /\ outputs' = IF success THEN [js |-> Some(now), wasm |-> Some(now)] ELSE outputs
          /\ attempts' = IF retry THEN attempts + 1 ELSE attempts
          /\ bpc' = IF retry THEN "loop" ELSE "returned"
          /\ bret' = IF success THEN "Ok(built)" ELSE IF retry THEN bret ELSE "Err(build)"
  /\ cb' = Emit(cb, One)
  /\ UNCHANGED <<app, PENDING_BUILDS, PENDING_COPIES, watch, hist, logging, tui, rpc, run, disk, cache,
                 mutexes, build_mode, enable_incremental_builds, crate_src_mtime, pt, spawns>>

\* the caller has the result and the locals of the call are gone; build_crate
\* can be called again
BuildCrateReturns ==
  /\ bpc = "returned"
  /\ bpc' = "idle"
  /\ run' = IF run.at = "running"
              THEN [run EXCEPT !.built = TRUE,
                               !.ok = @ /\ bret \in {"Ok(built)", "Ok(skipped)"}]
            ELSE run
  /\ attempts' = 0
  /\ pt' = ProgressTaskStart
  /\ cb' = NoCallback
  /\ exits' = <<>>
  /\ spawns' = 0
  /\ stderr' = EmptyPipe
  /\ UNCHANGED <<app, PENDING_BUILDS, PENDING_COPIES, watch, hist, logging, tui, rpc, disk, cache, crate_disk, mutexes, build_mode,
                 bret>>

\* the user saves a file under the crate's source directory
WriteCrateSource ==
  /\ crate_src_mtime' = now
  /\ crate_src_mtime # now
  /\ run' = Dirtied
  /\ UNCHANGED <<app, PENDING_BUILDS, PENDING_COPIES, watch, hist, logging, tui, rpc, disk, cache,
                 mutexes, build_mode, enable_incremental_builds, outputs, builder>>

\* a run of all builds and copies starts (main, Commands::Build, or the watch
\* loop after hot_reload or reset filled both pending sets): in a new process,
\* whose cache is empty, or in the process of the run before; with --clean the
\* dist directory is removed first
RunStart ==
  /\ run.at # "running"
  /\ bpc = "idle"
  /\ \E new_process \in BOOLEAN, clean \in BOOLEAN :
       /\ clean => new_process
       /\ FILE_HASHES' = IF new_process THEN None ELSE FILE_HASHES
       /\ FILE_TIMESTAMPS' = IF new_process THEN None ELSE FILE_TIMESTAMPS
       /\ stamp_content' = IF new_process THEN None ELSE stamp_content
       /\ dest_file' = IF clean THEN None ELSE dest_file
       /\ outputs' = IF clean THEN [js |-> None, wasm |-> None] ELSE outputs
       /\ copy_ret' = IF new_process THEN [ret |-> "none", same |-> FALSE, hit |-> FALSE]
                      ELSE copy_ret
       /\ run' = [at |-> "running",
                  fresh |-> new_process \/ (FILE_HASHES = None /\ FILE_TIMESTAMPS = None),
                  built |-> FALSE, filed |-> FALSE, spawned |-> FALSE, copied |-> FALSE,
                  ok |-> TRUE, dirty |-> clean,
                  after_ok |-> run.at = "done" /\ run.ok /\ ~run.dirty,
                  prev_fresh |-> run.fresh]
  /\ UNCHANGED <<app, PENDING_BUILDS, PENDING_COPIES, watch, hist, logging, tui, rpc, src_file,
                 mtime_supported, manager, now, mutexes, build_mode, enable_incremental_builds, crate_src_mtime, builder>>

\* both joined futures of the run have resolved
RunEnd ==
  /\ run.at = "running"
  /\ run.built /\ run.filed
  /\ run' = [run EXCEPT !.at = "done"]
  /\ UNCHANGED <<app, PENDING_BUILDS, PENDING_COPIES, watch, hist, logging, tui, rpc, disk, cache, crate_disk, mutexes, build_mode,
                 builder>>

\* build_crate and copy_file are each called once in a run.  The two are
\* joined: the first poll takes build_crate to its first pending await, which is
\* child.wait(), or to its return, and then runs copy_file, which never
\* suspends; the toolchain's exit is seen by a later poll.  The user saves
\* files between runs; time passes at any moment
RunNext ==
  \/ RunStart
  \/ run.at = "running" /\ ~run.built /\ BuildCrateCall
  \/ run.at = "running" /\ ~run.built /\ SpawnToolchain
  \/ run.at = "running" /\ ~run.filed /\ bpc \in {"running", "returned"} /\ CopyFile
  \/ run.at = "running" /\ ~run.built /\ run.filed /\ WaitFails
  \/ run.at = "running" /\ ~run.built /\ run.filed /\ ToolchainExits
  \/ run.at = "running" /\ ~run.built /\ run.filed /\ BuildCrateReturns
  \/ RunEnd
  \/ run.at # "running" /\ WriteSource
  \/ run.at # "running" /\ WriteCrateSource
  \/ ClockTick

\* the crate's source directory is removed: the walk of needs_rebuild finds
\* no file
RemoveCrateSource ==
  /\ crate_src_mtime # UNIX_EPOCH
  /\ crate_src_mtime' = UNIX_EPOCH
  /\ run' = Dirtied
  /\ UNCHANGED <<app, PENDING_BUILDS, PENDING_COPIES, watch, hist, logging, tui, rpc, disk, cache,
                 mutexes, build_mode, enable_incremental_builds, outputs, builder>>

BuildNext ==
  \/ BuildCrateCall
  \/ SpawnToolchain
  \/ StdoutLine
  \/ WaitFails
  \/ ToolchainExits
  \/ BuildCrateReturns
  \/ WriteCrateSource
  \/ RemoveCrateSource
  \/ ClockTick

\* the same with a toolchain that writes to stderr
BuildStderrNext ==
  \/ BuildCrateCall
  \/ SpawnToolchain
  \/ StdoutLine
  \/ StderrWrite
  \/ WaitFails
  \/ ToolchainExits
  \/ BuildCrateReturns
  \/ WriteCrateSource
  \/ RemoveCrateSource
  \/ ClockTick

----------------------------------------------------------------------------
(* TUILogLayer::on_event (logging.rs, common.rs): every log record is handed
   to a task of its own, spawned on the runtime, which locks the callback and
   calls it.  Records are numbered in the order the emitting task emits them *)

\* bound: log records emitted
MaxRecords == 4

\* on_event: the record is formatted and its forwarding task is spawned
on_event ==
  /\ emitted < MaxRecords
  /\ emitted' = emitted + 1
  /\ forwarding' = forwarding \cup {emitted + 1}
  /\ UNCHANGED <<app, PENDING_BUILDS, PENDING_COPIES, watch, hist, rpc, run, tui, disk, cache,
                 crate_disk, mutexes, build_mode, builder, callback_lock, delivered>>

\* the runtime polls a spawned forwarding task, whichever it picks: the task
\* takes the lock when it is free and queues behind the earlier waiters
\* otherwise
ForwardingPolled ==
  /\ \E t \in forwarding :
       /\ forwarding' = forwarding \ {t}
       /\ callback_lock' = IF callback_lock.holder = None
                             THEN [callback_lock EXCEPT !.holder = Some(t)]
                           ELSE [callback_lock EXCEPT !.waiters = Append(@, t)]
  /\ UNCHANGED <<app, PENDING_BUILDS, PENDING_COPIES, watch, hist, rpc, run, tui, disk, cache,
                 crate_disk, mutexes, build_mode, builder, emitted, delivered>>

\* the task holding the lock calls the callback and drops the guard; the lock
\* goes to the first waiter
CallbackCalled ==
  /\ \E t \in callback_lock.holder :
       delivered' = Append(delivered, t)
  /\ callback_lock' = IF callback_lock.waiters = <<>>
                        THEN [holder |-> None, waiters |-> <<>>]
                      ELSE [holder |-> Some(Head(callback_lock.waiters)),
                            waiters |-> Tail(callback_lock.waiters)]
  /\ UNCHANGED <<app, PENDING_BUILDS, PENDING_COPIES, watch, hist, rpc, run, tui, disk, cache,
                 crate_disk, mutexes, build_mode, builder, emitted, forwarding>>

ForwardNext ==
  \/ on_event
  \/ ForwardingPolled
  \/ CallbackCalled

----------------------------------------------------------------------------
(* The loop of Terminal::start (terminal.rs:65-101): every message is handled
   by App::update and the frame is drawn afterwards; a key press is handled
   first and the Tick of the same turn is followed by the draw.  The lock of
   the App is released between update and draw *)

\* bound: LogMessage messages handled where the scroll offset is followed
MaxScrollLines == 12
\* bound: LogMessage messages handled where the log buffer is filled
MaxAppended == 1002

\* the height of the logs area is Constraint::Length(100) at most, and its
\* block has a border above and below
MaxVisibleLogs == 100 - 2

\* inner heights of the logs block that draw() meets
Heights == {0, 3, MaxVisibleLogs}

\* log levels, by the number of the line
LevelOf(n) == <<"Info", "Debug", "Warn", "Error">>[(n % 4) + 1]

\* Terminal::render_logs, the App fields it writes
render_logs(a, max_visible_logs) ==
  LET total_logs == Len(a.log_buffer)
      max_scroll == Max(total_logs - max_visible_logs, 0)
  IN [a EXCEPT !.max_logs = max_visible_logs,
               !.scroll_offset = IF a.scroll_offset > max_scroll \/ ~a.user_scrolled
                                   THEN max_scroll ELSE a.scroll_offset]

\* everything outside the App and the loop
backend ==
  <<PENDING_BUILDS, PENDING_COPIES, watch, hist, rpc, run, logging, disk, cache, crate_disk, mutexes, build_mode,
    builder>>

\* EXMessage::Keypress(KeyCode::Up)
KeyUp ==
  /\ tpc = "select"
  /\ app' = IF app.scroll_offset > 0
              THEN [app EXCEPT !.scroll_offset = Max(app.scroll_offset - 5, 0),
                               !.user_scrolled = TRUE]
            ELSE app
  /\ tpc' = "draw"
  /\ UNCHANGED <<backend, appended, screen>>

\* EXMessage::Keypress(KeyCode::Down)
KeyDown ==
  /\ tpc = "select"
  /\ app' = IF app.scroll_offset < Max(Len(app.log_buffer) - 5, 0) /\ app.user_scrolled
              THEN [app EXCEPT !.scroll_offset = app.scroll_offset + 5]
            ELSE app
  /\ tpc' = "draw"
  /\ UNCHANGED <<backend, appended, screen>>

\* EXMessage::Keypress(KeyCode::Char('r')) in the loop
KeyReset ==
  /\ tpc = "select"
  /\ app' = reset(app)
  /\ PENDING_BUILDS' = PENDING_BUILDS \cup ExtensionCrate
  /\ PENDING_COPIES' = PENDING_COPIES \cup EFile
  /\ tpc' = "draw"
  /\ UNCHANGED <<watch, hist, rpc, run, logging, disk, cache, crate_disk, mutexes, build_mode, builder, appended, screen>>

\* EXMessage::LogMessage(level, msg): the lines are numbered as they arrive
LogMessage ==
  /\ tpc = "select"
  /\ app' = add_log(app, LevelOf(appended + 1), appended + 1)
  /\ appended' = appended + 1
  /\ tpc' = "draw"
  /\ UNCHANGED <<backend, screen>>

\* EXMessage::Tick in the loop
TerminalTick ==
  /\ tpc = "select"
  /\ tpc' = "draw"
  /\ UNCHANGED <<backend, app, appended, screen>>

\* Terminal::draw, as far as the App is written
Draw ==
  /\ tpc = "draw"
  /\ \E max_visible_logs \in Heights : app' = render_logs(app, max_visible_logs)
  /\ tpc' = "select"
  /\ UNCHANGED <<backend, appended, screen>>

ScrollNext ==
  \/ KeyUp
  \/ KeyDown
  \/ KeyReset
  \/ appended < MaxScrollLines /\ LogMessage
  \/ TerminalTick
  \/ Draw

LogBufferNext ==
  \/ appended < MaxAppended /\ LogMessage
  \/ TerminalTick
  \/ Draw

\* Terminal::start before its loop: raw mode on, alternate screen entered,
\* cursor hidden
TuiScreen == [raw_mode |-> TRUE, alternate_screen |-> TRUE, cursor_shown |-> FALSE]

\* the terminal as it was before start
RestoredScreen == [raw_mode |-> FALSE, alternate_screen |-> FALSE, cursor_shown |-> TRUE]

exit_tui_keeps_raw_mode(s) ==
  [s EXCEPT !.alternate_screen = FALSE, !.cursor_shown = TRUE]

\* Terminal::exit_tui
exit_tui(s) ==
  [s EXCEPT !.raw_mode = FALSE, !.alternate_screen = FALSE, !.cursor_shown = TRUE]

\* process_update: draw() returns Err, which process_update logs and returns
\* and start returns through its ?
DrawFails ==
  /\ tpc = "draw"
  /\ tpc' = "failed"
  /\ UNCHANGED <<PENDING_BUILDS, PENDING_COPIES, chan, wpc, builds, copies, bfut, cfut, orphans,
                 handled, timer, since_event, hist, rpc, run, logging, disk, cache, crate_disk, mutexes, build_mode, builder, appended,
                 app, cancelled, screen>>

\* the caller of start, given Err: the token is cancelled and the Terminal is
\* dropped, and Drop for Terminal calls exit_tui
StartFailed ==
  /\ tpc = "failed"
  /\ cancelled' = TRUE
  /\ screen' = exit_tui(screen)
  /\ tpc' = "dropped"
  /\ UNCHANGED <<PENDING_BUILDS, PENDING_COPIES, chan, wpc, builds, copies, bfut, cfut, orphans,
                 handled, timer, since_event, hist, rpc, run, logging, disk, cache, crate_disk, mutexes, build_mode, builder, appended,
                 app>>

\* process_update with Keypress('q'): should_quit is read TRUE, the token is
\* cancelled, exit_tui, Ok(false), and start returns Ok
KeyQuit ==
  /\ tpc = "select"
  /\ app' = [app EXCEPT !.should_quit = TRUE]
  /\ cancelled' = TRUE
  /\ screen' = exit_tui(screen)
  /\ tpc' = "returned"
  /\ UNCHANGED <<PENDING_BUILDS, PENDING_COPIES, chan, wpc, builds, copies, bfut, cfut, orphans,
                 handled, timer, since_event, hist, rpc, run, logging, disk, cache, crate_disk, mutexes, build_mode, builder, appended>>

\* start, select arm cancellation_token.cancelled(): exit_tui, break
TerminalCancelled ==
  /\ tpc = "select"
  /\ cancelled
  /\ screen' = exit_tui(screen)
  /\ tpc' = "returned"
  /\ UNCHANGED <<PENDING_BUILDS, PENDING_COPIES, chan, wpc, builds, copies, bfut, cfut, orphans,
                 handled, timer, since_event, hist, rpc, run, logging, disk, cache, crate_disk, mutexes, build_mode, builder, appended,
                 app, cancelled>>

TerminalNext ==
  \/ HotReload
  \/ CtrlC
  \/ WatchExit
  \/ KeyUp
  \/ KeyDown
  \/ appended < MaxScrollLines /\ LogMessage
  \/ TerminalTick
  \/ Draw
  \/ DrawFails
  \/ StartFailed
  \/ KeyQuit
  \/ TerminalCancelled

----------------------------------------------------------------------------
(* ManganisBuildManager (manganis.rs).  The manager is its config and its   *)
(* guard; saved, work, ret and last are history: the times the Manganis     *)
(* configuration was saved, the steps process_assets has performed, the     *)
(* result of the last call, and the last call with the state it met.        *)

\* bound: calls made on one manager
MaxManagerCalls == 4

\* the fields of ExtConfig the manager reads
ManganisConfigs ==
  [build_mode : {"Development", "Release"}, assets_include_tailwind : BOOLEAN]

DefaultConfig == [build_mode |-> "Development", assets_include_tailwind |-> FALSE]

\* ManganisBuildManager::new
ManganisBuildManagerNew(config) ==
  [config |-> config, guard |-> None, saved |-> 0, work |-> <<>>, ret |-> "none",
   last |-> [op |-> "new", guard |-> None, work |-> <<>>, saved |-> 0], calls |-> 0]

\* the call m is about to serve
Called(m, op) ==
  [m EXCEPT !.last = [op |-> op, guard |-> m.guard, work |-> m.work, saved |-> m.saved],
            !.calls = m.calls + 1]

\* ManganisBuildManager::configure
configure(m) ==
  IF m.guard = None
    THEN [Called(m, "configure") EXCEPT !.saved = m.saved + 1,
                                        !.guard = Some("ManganisSupportGuard"),
                                        !.ret = "Ok"]
  ELSE [Called(m, "configure") EXCEPT !.ret = "Ok"]

\* what the environment of one process_assets call decides: whether the
\* process runs as the intercepted linker, whether assets_dir holds a
\* tailwind.css, and the step that fails, if any
ProcessEnvs ==
  [intercept : BOOLEAN, tailwind_source : BOOLEAN,
   fails : {"none", "create_dir_all", "copy_static_assets_to", "tailwind", "start_linker_intercept"}]

\* the steps of process_assets in order, each with the error it can return
AssetSteps(m, env) ==
  IF env.intercept
    THEN <<"create_dir_all", "copy_static_assets_to">>
         \o (IF m.config.assets_include_tailwind THEN <<"tailwind">>
             ELSE IF env.tailwind_source THEN <<"tailwind">> ELSE <<>>)
  ELSE <<"start_linker_intercept">>

\* the steps performed before the one that fails
StepsDone(steps, fails) ==
  IF \E i \in 1..Len(steps) : steps[i] = fails
    THEN SubSeq(steps, 1, (CHOOSE i \in 1..Len(steps) : steps[i] = fails) - 1)
  ELSE steps

process_assets_unguarded(m, env) ==
  LET steps == AssetSteps(m, env)
      done == StepsDone(steps, env.fails)
  IN [Called(m, "process_assets") EXCEPT !.work = m.work \o done,
                                         !.ret = IF done = steps THEN "Ok" ELSE "Err"]

\* ManganisBuildManager::process_assets
process_assets(m, env) ==
  IF m.guard = None
    THEN [Called(m, "process_assets") EXCEPT !.ret = "Err_guard"]
  ELSE LET steps == AssetSteps(m, env)
           done == StepsDone(steps, env.fails)
       IN [Called(m, "process_assets") EXCEPT !.work = m.work \o done,
                                              !.ret = IF done = steps THEN "Ok" ELSE "Err"]

beside_manager ==
  <<app, PENDING_BUILDS, PENDING_COPIES, watch, hist, rpc, run, logging, tui, src_file,
    dest_file, mtime_supported, now, cache, crate_disk, mutexes, build_mode, builder>>

Configure ==
  /\ manager.calls < MaxManagerCalls
  /\ manager' = configure(manager)
  /\ UNCHANGED beside_manager

ProcessAssets ==
  /\ manager.calls < MaxManagerCalls
  /\ \E env \in ProcessEnvs : manager' = process_assets(manager, env)
  /\ UNCHANGED beside_manager

ManganisNext ==
  \/ Configure
  \/ ProcessAssets

----------------------------------------------------------------------------
(* The shared tokio mutexes and the order the tasks lock them in            *)

Mutexes ==
  {"PENDING_BUILDS", "PENDING_COPIES", "FILE_HASHES", "FILE_TIMESTAMPS", "App", "LogCallback"}

\* the watch loop, two copy_file futures of one batch, the render loop, two
\* forwarding tasks spawned by on_event, and the final report
LockTasks == {"watch", "copy_a", "copy_b", "render", "forward_a", "forward_b", "report"}

\* m.lock().await, and the end of the guard's scope
Lock(m) == <<"lock", m>>
Drop(m) == <<"drop", m>>

\* a task that runs none of the functions below
NoLocks == [prog |-> <<>>, at |-> 1]

\* handle_event: every insert is PENDING_X.lock().await.insert(..), a guard
\* that lives for one statement
handle_event_locks ==
  <<Lock("PENDING_COPIES"), Drop("PENDING_COPIES"), Lock("PENDING_BUILDS"), Drop("PENDING_BUILDS")>>

\* process_pending_events: the two drains
process_pending_events_locks ==
  <<Lock("PENDING_BUILDS"), Drop("PENDING_BUILDS"), Lock("PENDING_COPIES"), Drop("PENDING_COPIES")>>

\* copy_file: hashes, then timestamps, both held to the end of the function
\* and dropped in reverse order of declaration
copy_file_locks ==
  <<Lock("FILE_HASHES"), Lock("FILE_TIMESTAMPS"), Drop("FILE_TIMESTAMPS"), Drop("FILE_HASHES")>>

\* reset(): one lock and one drop per element inserted
reset_locks ==
  [i \in 1..(2 * Len(ResetInserts)) |->
     LET x == ResetInserts[(i + 1) \div 2]
         m == IF x \in ExtensionCrate THEN "PENDING_BUILDS" ELSE "PENDING_COPIES"
     IN IF i % 2 = 1 THEN Lock(m) ELSE Drop(m)]

\* process_update: the App is locked for update(), released, and locked again
\* by draw()
process_update_locks == <<Lock("App"), Drop("App"), Lock("App"), Drop("App")>>

\* the tick arm of Terminal::start with a key press of 'r' at hand, where the
\* guard of the key block would live on into process_update
tick_locks_keeping_guard == <<Lock("App")>> \o reset_locks \o process_update_locks

\* the tick arm of Terminal::start with a key press of 'r' at hand: update()
\* runs reset() under the guard of the key block, then process_update(Tick)
tick_locks == <<Lock("App")>> \o reset_locks \o <<Drop("App")>> \o process_update_locks

\* the task spawned by on_event
on_event_locks == <<Lock("LogCallback"), Drop("LogCallback")>>

show_final_build_report_locks == <<Lock("App"), Drop("App")>>

\* the functions a task can run
LockPrograms(t) ==
  CASE t = "watch" -> {handle_event_locks, process_pending_events_locks}
    [] t \in {"copy_a", "copy_b"} -> {copy_file_locks}
    [] t = "render" -> {tick_locks, process_update_locks}
    [] t \in {"forward_a", "forward_b"} -> {on_event_locks}
    [] t = "report" -> {show_final_build_report_locks}

\* the statement task t stands before
NextOp(t) == lpc[t].prog[lpc[t].at]

\* task t has passed the statement it stood before
Advance(t) ==
  [lpc EXCEPT ![t] = IF lpc[t].at = Len(lpc[t].prog) THEN NoLocks
                     ELSE [lpc[t] EXCEPT !.at = @ + 1]]

beside_mutexes ==
  <<app, PENDING_BUILDS, PENDING_COPIES, watch, hist, rpc, run, logging, tui, disk, cache,
    crate_disk, builder, build_mode>>

\* a task enters one of its functions
StartProgram ==
  /\ \E t \in LockTasks :
       /\ lpc[t] = NoLocks
       /\ \E p \in LockPrograms(t) : lpc' = [lpc EXCEPT ![t] = [prog |-> p, at |-> 1]]
  /\ UNCHANGED held
  /\ UNCHANGED beside_mutexes

\* m.lock().await resolves once the mutex is free
MutexLock ==
  /\ \E t \in LockTasks :
       /\ lpc[t] # NoLocks
       /\ NextOp(t)[1] = "lock"
       /\ held[NextOp(t)[2]] = "free"
       /\ held' = [held EXCEPT ![NextOp(t)[2]] = t]
       /\ lpc' = Advance(t)
  /\ UNCHANGED beside_mutexes

\* the guard goes out of scope
MutexDrop ==
  /\ \E t \in LockTasks :
       /\ lpc[t] # NoLocks
       /\ NextOp(t)[1] = "drop"
       /\ held' = [held EXCEPT ![NextOp(t)[2]] = "free"]
       /\ lpc' = Advance(t)
  /\ UNCHANGED beside_mutexes

LocksNext ==
  \/ StartProgram
  \/ MutexLock
  \/ MutexDrop

----------------------------------------------------------------------------
(* Initial state: App::new (terminal.rs:47), the statics empty, main not yet *)
(* dispatched on the CLI command                                           *)

InitBase ==
  /\ app = AppNew
  /\ PENDING_BUILDS = {}
  /\ PENDING_COPIES = {}
  /\ chan = <<>>
  /\ cancelled = FALSE
  /\ wpc = "start"
  /\ builds = {}
  /\ copies = {}
  /\ bfut = NoFutures(ExtensionCrate)
  /\ cfut = NoFutures(EFile)
  /\ orphans = [k \in ExtensionCrate |-> 0]
  /\ rpc = ResetIdle
  /\ src_file = None
  /\ dest_file = None
  /\ now = 1
  /\ FILE_HASHES = None
  /\ FILE_TIMESTAMPS = None
  /\ copy_ret = [ret |-> "none", same |-> FALSE, hit |-> FALSE]
  /\ stamp_content = None
  /\ crate_src_mtime = 1
  /\ outputs = [js |-> None, wasm |-> None]
  /\ bpc = "idle"
  /\ attempts = 0
  /\ bret = "none"
  /\ pt = ProgressTaskStart
  /\ cb = NoCallback
  /\ exits = <<>>
  /\ spawns = 0
  /\ stderr = EmptyPipe
  /\ run = NoRun
  /\ emitted = 0
  /\ forwarding = {}
  /\ callback_lock = [holder |-> None, waiters |-> <<>>]
  /\ delivered = <<>>
  /\ appended = 0
  /\ tpc = "select"
  /\ screen = TuiScreen
  /\ timer = 0
  /\ since_event = TickPeriod
  /\ held = [m \in Mutexes |-> "free"]
  /\ lpc = [t \in LockTasks |-> NoLocks]
  /\ handled = NoHandled
  /\ lastMsg = "none"
  /\ everReset = FALSE
  /\ startedSinceReset = FALSE
  /\ synced = TRUE
  /\ resolvedByMsg = {}

Init ==
  /\ InitBase
  /\ build_mode = "Development"
  /\ mtime_supported = TRUE
  /\ enable_incremental_builds = TRUE
  /\ manager = ManganisBuildManagerNew(DefaultConfig)

\* the same on any platform, with or without modification times
InitAnyPlatform ==
  /\ InitBase
  /\ build_mode = "Development"
  /\ mtime_supported \in BOOLEAN
  /\ enable_incremental_builds = TRUE
  /\ manager = ManganisBuildManagerNew(DefaultConfig)

\* the same with any configuration
InitAnyConfig ==
  /\ InitBase
  /\ build_mode = "Development"
  /\ mtime_supported \in BOOLEAN
  /\ enable_incremental_builds \in BOOLEAN
  /\ manager = ManganisBuildManagerNew(DefaultConfig)

\* a manager made for any configuration
InitManganis ==
  /\ InitBase
  /\ build_mode = "Development"
  /\ mtime_supported = TRUE
  /\ enable_incremental_builds = TRUE
  /\ \E config \in ManganisConfigs : manager = ManganisBuildManagerNew(config)

\* the same with any --mode on the command line
InitAnyMode ==
  /\ InitBase
  /\ build_mode \in BuildMode
  /\ mtime_supported = TRUE
  /\ enable_incremental_builds = TRUE
  /\ manager = ManganisBuildManagerNew(DefaultConfig)

\* the watch loop and the one-shot build
Spec == Init /\ [][Next]_vars

\* the watch loop scheduled fairly: time passes, a select arm that stays ready
\* or is ready again and again is taken, and every toolchain process exits
SpecWatchFair ==
  /\ Spec
  /\ WF_vars(TimePasses)
  /\ WF_vars(HotReload \/ BuildCommand)
  /\ SF_vars(RecvEvent)
  /\ SF_vars(DrainBuilds)
  /\ WF_vars(DrainCopies \/ FirstPoll \/ DrainReturn)
  /\ WF_vars(BuildSucceeds \/ BuildFails)

\* the tasks that take the shared mutexes, in every interleaving
SpecLocks == Init /\ [][LocksNext]_vars

\* the UI model under every sequence of messages
SpecApp == Init /\ [][AppNext]_vars

\* the UI model under the messages a build sends (UpdateTask, TaskProgress),
\* the render loop's Tick and the reset key press
ProgressNext ==
  \/ KeypressReset
  \/ Tick
  \/ UpdateTask
  \/ TaskProgress

SpecProgress == Init /\ [][ProgressNext]_vars

\* the reset key press beside the drains of the watch loop
ResetNext ==
  \/ ResetBegin
  \/ ResetInsert
  \/ ResetReturn
  \/ HotReload
  \/ DrainBuilds
  \/ DrainCopies
  \/ FirstPoll
  \/ BuildSucceeds
  \/ DrainReturn
  \/ TimePasses

SpecReset == Init /\ [][ResetNext]_vars

\* copy_file called again and again while the files change
SpecCopy == InitAnyPlatform /\ [][CopyNext]_vars

\* the same on a file system that can fail
SpecCopyIo == InitAnyPlatform /\ [][CopyIoNext]_vars

\* the same on a platform that has modification times
SpecCopyMtime == Init /\ [][CopyNext]_vars

\* the terminal loop with keys, log lines and resets
SpecScroll == Init /\ [][ScrollNext]_vars

\* the terminal loop from start to its return, beside the watch loop
SpecTerminal == Init /\ [][TerminalNext]_vars

\* one ManganisBuildManager under any sequence of calls
SpecManganis == InitManganis /\ [][ManganisNext]_vars

\* the terminal loop fed with log lines
SpecLogBuffer == Init /\ [][LogBufferNext]_vars

\* the same in either build mode
SpecLogMode == InitAnyMode /\ [][LogBufferNext]_vars

\* one task emitting log records through TUILogLayer
SpecForward == Init /\ [][ForwardNext]_vars

\* runs of all builds and copies, one after another, with incremental builds
SpecRun == InitAnyPlatform /\ [][RunNext]_vars

\* build_crate called again and again, with any configuration
SpecBuild == InitAnyConfig /\ [][BuildNext]_vars

\* the same with a toolchain that writes to stderr
SpecBuildStderr == InitAnyConfig /\ [][BuildStderrNext]_vars

----------------------------------------------------------------------------
(* Claims about the watch loop and the one-shot build, checked under Spec *)

\* the join of the current batch has resolved and its results are at hand
DrainEnds == wpc \in {"join", "oneshot_join"} /\ BuildsResolved

\* wasm-pack processes of crate k alive: the one its pending future awaits and
\* the ones whose future was dropped
InFlight(k) == orphans[k] + (IF bfut[k] = "running" THEN 1 ELSE 0)

\* C1: at no time are two toolchain builds of the same crate kind in flight,
\* also across drains in which a sibling build fails.
C1_OneBuildPerKindInFlight == \A k \in ExtensionCrate : InFlight(k) <= 1

\* C2: when a drain ends it has built exactly the crates and copied exactly the
\* files that were in the pending sets when it drained them (the kinds that
\* arrive meanwhile wait in the channel or in the pending sets).
C2_DrainProcessesExactlySnapshot ==
  DrainEnds =>
    /\ {k \in ExtensionCrate : bfut[k] \in {"ok", "err"}} = builds
    /\ {f \in EFile : cfut[f] \in {"ok", "err"}} = copies

\* C3: a failing build does not stop the other builds of its batch: when the
\* join resolves every build of the batch has run to its own Ok or Err.
C3_EveryBuildYieldsItsResult ==
  DrainEnds => \A k \in builds : bfut[k] \in {"ok", "err"}

\* C4: a file whose copy failed in a drain is in the pending-copies set when
\* the drain ends, so that the next drain attempts it again.
C4_FailedCopyStaysPending ==
  (wpc = "join" /\ BuildsResolved) =>
    \A f \in copies : cfut[f] = "err" => f \in PENDING_COPIES

----------------------------------------------------------------------------
(* Claims about reset() beside the watch loop, checked under SpecReset *)

\* C11: immediately after reset() returns the tasks map has exactly one entry
\* per crate, each Pending, PENDING_BUILDS is the whole of ExtensionCrate,
\* PENDING_COPIES the whole of EFile, and overall_start_time is set.
C11_ResetPostcondition ==
  rpc.at = "returned" =>
    /\ app.tasks = ResetTasks
    /\ PENDING_BUILDS = ExtensionCrate
    /\ PENDING_COPIES = EFile
    /\ app.overall_start_time # None

----------------------------------------------------------------------------
(* Claims about copy_file, checked under SpecCopy *)

\* the copy decision for the files as they are, under the given cache entries
NeedsCopy(hashes, timestamps) ==
  copy_decision(CHOOSE f \in src_file : TRUE, dest_file, hashes, timestamps).copy_needed

\* C12 as stated: copy_file skips the copy if and only if source and
\* destination hold the same content, whatever the cache holds; clearing the
\* cache before a call does not change its decision.
C12_CopyDecisionIsContentEquality ==
  /\ copy_ret.ret \in {"copied", "skipped"} => (copy_ret.ret = "skipped" <=> copy_ret.same)
  /\ src_file # None => NeedsCopy(FILE_HASHES, FILE_TIMESTAMPS) = NeedsCopy(None, None)

\* C12 amended: copy_file skips the copy if and only if source and destination
\* hold the same content or the destination has the source's length and the
\* cache holds the source's current mtime; so with no cached mtime for the
\* source (a cleared cache) it skips iff the contents are equal, and clearing
\* the cache can only turn a skip into a copy.
C12_CopyDecisionUpToCachedMtime ==
  /\ copy_ret.ret \in {"copied", "skipped"} =>
       (copy_ret.ret = "skipped" <=> (copy_ret.same \/ copy_ret.hit))
  /\ src_file # None =>
       /\ ~NeedsCopy(None, None) <=> SameContent
       /\ NeedsCopy(FILE_HASHES, FILE_TIMESTAMPS) => NeedsCopy(None, None)

\* a call with equal lengths and no matching cached mtime compared the hashes
\* and skipped the copy
C12_Witness ==
  /\ copy_ret = [ret |-> "skipped", same |-> TRUE, hit |-> FALSE]
  /\ FILE_TIMESTAMPS # None

\* the four-step rule: destination missing, copy; lengths differ, copy; the
\* cached mtime is the source's current mtime, skip; otherwise copy if and
\* only if the content hashes differ
FourStepRule(src, dest, timestamps) ==
  IF dest = None THEN TRUE
  ELSE LET dest_content == CHOOSE c \in dest : TRUE
       IN IF FileLen(src.content) # FileLen(dest_content) THEN TRUE
          ELSE IF mtime_supported /\ timestamps = Some(src.mtime) THEN FALSE
          ELSE calculate_file_hash(src.content) # calculate_file_hash(dest_content)

\* C25: for every destination (missing or present), every pair of lengths,
\* every cached mtime and every pair of contents, the copy-or-skip decision of
\* copy_file is the one of the four-step rule.
C25_CopyDecisionIsFourStepRule ==
  \A f \in src_file :
    copy_decision(f, dest_file, FILE_HASHES, FILE_TIMESTAMPS).copy_needed
      = FourStepRule(f, dest_file, FILE_TIMESTAMPS)

\* copy_file has skipped a copy on the cached mtime alone, the contents differing
C25_Witness ==
  /\ copy_ret = [ret |-> "skipped", same |-> FALSE, hit |-> TRUE]
  /\ \A f \in src_file :
       ~copy_decision(f, dest_file, FILE_HASHES, FILE_TIMESTAMPS).copy_needed

\* C28: when the destination exists but reading it fails (its metadata, or its
\* content for hashing), copy_file treats it as stale: it attempts the copy,
\* and returns an error only if the copy itself fails; so it never returns the
\* error of reading the destination.  Checked under SpecCopyIo.
C28_UnreadableDestinationIsStale == copy_ret.ret # "err_dest"

\* C29: a copy_file call that returns an error leaves FILE_HASHES and
\* FILE_TIMESTAMPS as they were, and after a failed copy the decision on the
\* same files is again to copy.  Checked under SpecCopyIo.
C29_FailedCopyLeavesCacheUnchanged ==
  [][CopyFileAnyIo /\ copy_ret'.ret \in {"err", "err_dest", "err_copy"} =>
       /\ FILE_HASHES' = FILE_HASHES
       /\ FILE_TIMESTAMPS' = FILE_TIMESTAMPS
       /\ copy_ret'.ret = "err_copy" =>
            \A f \in src_file' :
              copy_decision(f, dest_file', FILE_HASHES', FILE_TIMESTAMPS').copy_needed]_vars

\* C13: the source path has an entry in FILE_TIMESTAMPS if and only if it has
\* one in FILE_HASHES, and the stored hash is the hash of the content read
\* when the stored mtime was observed.
C13_HashAndMtimeUpdatedTogether ==
  /\ FILE_TIMESTAMPS # None <=> FILE_HASHES # None
  /\ FILE_TIMESTAMPS # None /\ FILE_HASHES # None =>
       FILE_HASHES = {calculate_file_hash(c) : c \in stamp_content}

----------------------------------------------------------------------------
(* Claims about runs of all builds and copies, checked under SpecRun *)

\* a run has ended that followed a run that succeeded, and no file was written
\* by anything else since that run started
SecondRunUnmodified ==
  /\ run.at = "done"
  /\ run.after_ok
  /\ ~run.dirty

\* the run spawned no toolchain and copied nothing: build_crate returned from
\* the rebuild decision and copy_file reported skipped
NothingDone ==
  /\ ~run.spawned
  /\ ~run.copied
  /\ bret = "Ok(skipped)"
  /\ copy_ret.ret = "skipped"

----------------------------------------------------------------------------
(* Claims about handle_event, checked under Spec *)

\* C18: when handle_event has handled the same event twice with no drain in
\* between, both pending sets are what they were after the first time.
C18_HandleEventIdempotent ==
  handled.times = 2 =>
    /\ PENDING_BUILDS = handled.once.builds
    /\ PENDING_COPIES = handled.once.copies

\* an event that inserts into both sets has been handled twice in a row
C18_Witness ==
  /\ handled.times = 2
  /\ handled.event = Some({BackgroundIndex})
  /\ "Background" \in PENDING_BUILDS
  /\ "IndexJs" \in PENDING_COPIES

\* C32: every received FS event re-arms the drain timer: no drain starts less
\* than one tick period after the most recently received FS event.
C32_NoDrainWithinPeriodOfEvent == wpc = "drain_copies" => since_event = TickPeriod

\* a drain has started that takes what an event alone inserted
C32_Witness ==
  /\ wpc = "drain_copies"
  /\ builds = {"Popup"}
  /\ chan = <<>>
  /\ since_event = TickPeriod

\* C33: every crate and every file inserted into a pending set is eventually
\* taken by a drain, unless the loop is cancelled: builds terminate and the
\* loop is scheduled fairly, whatever FS events arrive.  Checked under
\* SpecWatchFair.
C33_PendingEventuallyDrained ==
  /\ \A k \in ExtensionCrate : (k \in PENDING_BUILDS) ~> (k \notin PENDING_BUILDS \/ cancelled)
  /\ \A f \in EFile : (f \in PENDING_COPIES) ~> (f \notin PENDING_COPIES \/ cancelled)

\* C34: a drain takes and clears both pending sets as one step: between the
\* clearing of PENDING_BUILDS and the clearing of PENDING_COPIES no insertion
\* into either set takes effect.  Checked under SpecReset.
C34_DrainClearsBothSetsAtomically ==
  [][wpc = "drain_copies" =>
       /\ PENDING_BUILDS' \subseteq PENDING_BUILDS
       /\ PENDING_COPIES' \subseteq PENDING_COPIES]_vars

\* C35: the mutexes are taken in the order pending sets, cache, UI model,
\* terminal: no task holds the guard of the App while it takes or holds the
\* guard of a pending set or of a cache.  Checked under SpecLocks.
C35_NoPendingOrCacheLockUnderApp ==
  \A t \in LockTasks :
    held["App"] = t =>
      \A m \in {"PENDING_BUILDS", "PENDING_COPIES", "FILE_HASHES", "FILE_TIMESTAMPS"} :
        /\ held[m] # t
        /\ NextOp(t) # Lock(m)

\* task t waits for a mutex that is held
Blocked(t) ==
  /\ lpc[t] # NoLocks
  /\ NextOp(t)[1] = "lock"
  /\ held[NextOp(t)[2]] # "free"

\* task t runs, or the task it waits for does, following at most n waits
RECURSIVE CanProceed(_, _)
CanProceed(t, n) ==
  IF ~Blocked(t) THEN TRUE
  ELSE IF n = 0 THEN FALSE
  ELSE CanProceed(held[NextOp(t)[2]], n - 1)

\* C36: no interleaving of the tasks deadlocks on the shared mutexes: the
\* holder of a guard is always in a function that drops it, and it runs or
\* waits, through a chain of holders, for a task that runs.  Checked under
\* SpecLocks.
C36_NoDeadlockOnSharedMutexes ==
  \A m \in Mutexes :
    held[m] # "free" =>
      /\ \E i \in lpc[held[m]].at..Len(lpc[held[m]].prog) : lpc[held[m]].prog[i] = Drop(m)
      /\ CanProceed(held[m], Cardinality(LockTasks))

\* the report waits for the App while reset() under the App's guard waits for
\* the pending set the drain holds, and one copy waits for the other
C36_Witness ==
  /\ Blocked("report")
  /\ Blocked("render")
  /\ held["PENDING_BUILDS"] = "watch"
  /\ Blocked("copy_b")
  /\ held["FILE_TIMESTAMPS"] = "copy_a"

\* C37: build_crate never waits for the toolchain to exit while the toolchain
\* is blocked in a write to the pipe of stderr, which nothing reads: every
\* toolchain that would exit once its output is read does exit, and
\* build_crate returns.  Checked under SpecBuildStderr.
C37_NeverWaitsOnUnreadStderr == ~(bpc = "running" /\ stderr.blocked)

\* C38: in the initial build (main, Commands::Build) no asset copy starts
\* before every crate build has resolved, with Ok or with Err.  Checked
\* under Spec.
C38_NoCopyBeforeBuildsResolved ==
  wpc = "oneshot_join" /\ (\E f \in EFile : cfut[f] \in {"ok", "err"}) =>
    \A k \in ExtensionCrate : bfut[k] \in {"ok", "err"}

\* TaskProgress(t, v) handled in state a stores clamp(v) as the progress of t
\* and changes no status
AppliedTo(a, t, v) ==
  LET b == update_task_progress(a, t, v)
  IN /\ t \in DOMAIN b.task_history
     /\ b.task_history[t].progress = Some(clamp(v, 0, One))
     /\ b.tasks = a.tasks
     /\ DOMAIN b.task_history = DOMAIN a.task_history
     /\ \A n \in DOMAIN a.task_history : b.task_history[n].status = a.task_history[n].status

\* the f64 values of two TaskProgress messages in a row: -0.5, 0.0, 0.5, 1.0, 1.5
TwoProgressValues == ProgressValues \cup {0, One \div 2, One}

\* C39 as stated: whichever messages came before, a TaskProgress(t, v2) that
\* follows a TaskProgress(t, v1) with v2 > v1 is applied: the stored progress
\* of t is clamp(v2) and no status has changed.  Checked under SpecApp.
C39_GreaterProgressAlwaysApplied ==
  \A t \in TaskNames : \A v1, v2 \in TwoProgressValues :
    v2 > v1 => AppliedTo(update_task_progress(app, t, v1), t, v2)

\* C39, amended: a TaskProgress(t, v) with v greater than the progress stored
\* for t is applied for every task that has an entry in task_history (after
\* a reset, or after an UpdateTask that names it); the progress of a
\* task without an entry is stored nowhere.  Checked under SpecApp.
C39_GreaterProgressAppliedToKnownTask ==
  /\ \A t \in DOMAIN app.task_history : \A v \in TwoProgressValues :
       (\A last \in app.task_history[t].progress : v > last) => AppliedTo(app, t, v)
  /\ \A t \in TaskNames \ DOMAIN app.task_history : \A v \in TwoProgressValues :
       /\ update_task_progress(app, t, v).task_history = app.task_history
       /\ update_task_progress(app, t, v).tasks = app.tasks

\* a TaskProgress of 1.5 was the last message, for a task that is still
\* Pending: its stored progress is 1.0
C39_Witness ==
  /\ lastMsg = "TaskProgress"
  /\ \E t \in DOMAIN app.task_history :
       /\ app.task_history[t].status = "Pending"
       /\ app.task_history[t].progress = Some(One)

\* C40: when the build mode is release, a LogMessage of level Debug leaves
\* the log buffer as it is, and a LogMessage of any other level is appended
\* to it.  Checked under SpecLogMode.
C40_ReleaseDropsDebugLines ==
  [][build_mode = "Release" /\ appended' = appended + 1 =>
       IF LevelOf(appended') = "Debug" THEN app'.log_buffer = app.log_buffer
       ELSE app'.log_buffer # app.log_buffer]_vars

\* C31: an FS event any of whose paths contains .tmp or .swp, ends with ~ or
\* ends with .git is dropped by handle_event: both pending sets are left as
\* they are, even when other paths of the event match a crate or a file.
C31_NoiseEventChangesNothing ==
  \A event \in Events \cup NoiseEvents :
    (\E path \in event : path.markers \cap {".tmp", ".swp", "~$", ".git$"} # {}) =>
      handle_event(event, [builds |-> PENDING_BUILDS, copies |-> PENDING_COPIES])
        = [builds |-> PENDING_BUILDS, copies |-> PENDING_COPIES]

\* the event of a swap file and a source file of the popup crate has been
\* handled after a drain, and the popup crate is not pending
C31_Witness ==
  /\ handled.event = Some({PopupSwap, PopupSource})
  /\ handled.times = 1
  /\ wpc = "select"
  /\ "Popup" \notin PENDING_BUILDS

\* C30: for an FS event that passes the noise filter, handle_event adds to
\* PENDING_BUILDS every crate when some path of the event contains "api", and
\* otherwise exactly the crates whose name occurs in some path; it adds to
\* PENDING_COPIES exactly the files whose watch path occurs in some path; it
\* removes nothing from either set.
C30_HandleEventAddsMatchedKinds ==
  \A event \in Events :
    (\A path \in event : ~is_noise(path)) =>
      handle_event(event, [builds |-> PENDING_BUILDS, copies |-> PENDING_COPIES])
        = [builds |-> PENDING_BUILDS \cup
                        (IF \E path \in event : path.api THEN ExtensionCrate
                         ELSE UNION {path.crates : path \in event}),
           copies |-> PENDING_COPIES \cup UNION {path.files : path \in event}]

----------------------------------------------------------------------------
(* Claims about log forwarding, checked under SpecForward *)

\* C17: the log callback is called with the records in the order the task
\* emitted them.
C17_DeliveredInEmissionOrder ==
  \A i \in 1..Len(delivered), j \in 1..Len(delivered) :
    i < j => delivered[i] < delivered[j]

----------------------------------------------------------------------------
----------------------------------------------------------------------------
(* C23: once the cancellation token is cancelled, the watch loop handles no  *)
(* further FS event (nothing is received from the channel) and starts no     *)
(* further drain, and the render loop has restored the terminal when it      *)
(* leaves.  Checked under Spec.                                              *)
C23_NoWorkAfterCancellation ==
  [][/\ cancelled => Len(chan') >= Len(chan)
     /\ cancelled /\ wpc = "select" => wpc' \in {"select", "exited"}
     /\ tpc' = "returned" => screen' = RestoredScreen]_vars

----------------------------------------------------------------------------
(* C24: ManganisBuildManager starts with no support guard; a successful     *)
(* configure() leaves the guard set, and it stays set under any further      *)
(* call; a configure() that meets the guard set changes nothing (the         *)
(* configuration is saved once); process_assets() called while the guard is  *)
(* unset returns an error and performs no step.  Checked under SpecManganis. *)
C24_GuardSetOnceAndRequired ==
  /\ manager.calls = 0 => manager.guard = None
  /\ manager.last.op = "configure" => manager.ret = "Ok" /\ manager.guard # None
  /\ manager.last.guard # None =>
       /\ manager.guard = manager.last.guard
       /\ manager.last.op = "configure" =>
            manager.work = manager.last.work /\ manager.saved = manager.last.saved
  /\ manager.last.op = "process_assets" /\ manager.last.guard = None =>
       /\ manager.ret = "Err_guard"
       /\ manager.work = manager.last.work
       /\ manager.guard = None

C24_Witness ==
  /\ manager.last.op = "process_assets"
  /\ manager.last.guard = None
  /\ manager.ret = "Err_guard"
  /\ manager.calls = 1

----------------------------------------------------------------------------
(* Further claims about the UI model, checked under SpecApp *)

\* C21: every key of the tasks map is a key of the task-history map.
C21_TasksHaveHistory == DOMAIN app.tasks \subseteq DOMAIN app.task_history

\* a task that update_task entered into both maps, with no reset before
C21_Witness ==
  /\ ~everReset
  /\ DOMAIN app.tasks # {}
  /\ DOMAIN app.tasks # TaskNames

----------------------------------------------------------------------------
(* Claims about the log buffer and its scroll offset *)

\* C19: the log buffer never holds more than 1000 lines, whatever height the
\* renderer recorded last, and its lines are the latest lines appended, in
\* the order they were appended: only oldest lines are evicted.
C19_LogBufferBoundedAndOrdered ==
  LET n == Len(app.log_buffer)
  IN /\ n <= 1000
     /\ \A i \in 1..n : app.log_buffer[i].message = appended - n + i

\* the buffer was full, a line was appended and lines were evicted
C19_Witness ==
  /\ appended = 1001
  /\ app.max_logs = MaxVisibleLogs
  /\ Len(app.log_buffer) = MaxVisibleLogs

\* C20: scroll_offset <= max(0, length of the log buffer - visible rows), the
\* visible rows being those the renderer recorded last.
C20_ScrollOffsetWithinBuffer ==
  app.scroll_offset <= Max(0, Len(app.log_buffer) - app.max_logs)

----------------------------------------------------------------------------
(* Claims about build_crate, checked under SpecBuild *)

\* C15: within one build_crate call the values passed to the progress callback
\* never decrease and all lie in [0,1] (One stands for 1.0)
\* the artifacts needs_rebuild can meet: each missing, or written at an instant
\* up to now
ArtifactStates == {None} \cup {Some(t) : t \in 1..now}

\* the rule: the output directory is missing, or an artifact is missing, or the
\* newest source mtime is strictly greater than the oldest artifact mtime
RebuildRule(target_exists, src_mtime, out) ==
  \/ ~target_exists
  \/ out.js = None
  \/ out.wasm = None
  \/ /\ mtime_supported
     /\ \E m \in out.js \cup out.wasm : src_mtime > m

\* C26: needs_rebuild returns true if and only if the output directory is
\* missing, or one of the two artifacts is missing, or the newest mtime among
\* the source files is strictly greater than the oldest mtime of the two
\* artifacts; equal mtimes do not trigger a rebuild.
C26_NeedsRebuildIffMissingOrNewerSource ==
  \A target_exists \in BOOLEAN, src_mtime \in 0..now, js \in ArtifactStates,
     wasm \in ArtifactStates :
    needs_rebuild(target_exists, src_mtime, [js |-> js, wasm |-> wasm])
      = RebuildRule(target_exists, src_mtime, [js |-> js, wasm |-> wasm])

\* build_crate has skipped the build of a crate whose newest source file has
\* the mtime of its artifacts
C26_Witness ==
  /\ bpc = "returned"
  /\ bret = "Ok(skipped)"
  /\ mtime_supported
  /\ outputs.js = Some(crate_src_mtime)

\* C27: when the crate's source directory is missing, the rebuild decision is
\* "rebuild needed", whether or not the artifacts exist, and build_crate goes
\* on to the toolchain.
C27_MissingSourceNeedsRebuild ==
  crate_src_mtime = UNIX_EPOCH =>
    /\ needs_rebuild(TRUE, crate_src_mtime, outputs)
    /\ bret # "Ok(skipped)"

C15_ProgressNonDecreasingInUnitInterval == cb.monotone /\ cb.in_range

\* C16: a build_crate call spawns the toolchain at most 3 times; an exit is
\* followed by another spawn only if it was a failure whose stderr contained
\* the file lock message and fewer than 3 attempts had been made; a failure
\* without the message ends the call with Err right after that attempt; a
\* spawn that fails ends the call with Err and nothing is spawned after it
C16_BoundedRetryOnFileLockOnly ==
  /\ spawns <= 3
  /\ \A i \in 1..Len(exits) :
       /\ spawns > i => /\ ~exits[i].success
                        /\ exits[i].lock_message # "none"
                        /\ i < 3
       /\ ~exits[i].success /\ exits[i].lock_message = "none"
            => /\ i = Len(exits)
               /\ spawns = i
               /\ bpc = "returned"
               /\ bret = "Err(build)"
  /\ bret = "Err(spawn)" /\ bpc = "returned" => spawns = Len(exits) + 1

\* three attempts, each failing on the file lock, and the call has failed
C16_Witness ==
  /\ spawns = 3
  /\ Len(exits) = 3
  /\ \A i \in 1..3 : exits[i].lock_message = "within MAX_ERROR_LINES"
  /\ bret = "Err(build)"

----------------------------------------------------------------------------
(* Claims about the UI model, checked under SpecApp *)

Resolved == {"Success", "Failed"}
Unresolved == {"Pending", "InProgress"}

\* C5 as stated: once a task's status is Success or Failed, no message other
\* than the reset key press takes it back to Pending or InProgress.
C5_ResolvedStaysResolved ==
  [][\A n \in DOMAIN app.tasks :
       (app.tasks[n] \in Resolved /\ lastMsg' # "Keypress_r")
         => (n \in DOMAIN app'.tasks /\ app'.tasks[n] \in Resolved)]_vars

\* C5 amended: once a task's status is Success or Failed, no message other than
\* the reset key press and an UpdateTask naming that task with Pending or
\* InProgress takes it back to Pending or InProgress: a task whose last
\* UpdateTask since the last reset carried Success or Failed is resolved.
C5_ResolvedStaysUnlessUpdated ==
  \A n \in resolvedByMsg : n \in DOMAIN app.tasks /\ app.tasks[n] \in Resolved

\* a resolved task that later messages, a progress report among them, left resolved
C5_Witness ==
  /\ lastMsg = "TaskProgress"
  /\ \E n \in resolvedByMsg, m \in DOMAIN app.tasks :
       /\ app.tasks[n] = "Success"
       /\ app.task_history[n].progress = Some(0)
       /\ app.tasks[m] = "InProgress"

\* the aggregation rule of the build state, from the task map alone
RuleContribution(a, n) ==
  IF a.tasks[n] \in Resolved THEN One
  ELSE IF a.tasks[n] = "Pending" THEN 0
  ELSE IF n \in DOMAIN a.task_history /\ a.task_history[n].progress # None
    THEN unwrap_or(a.task_history[n].progress, 0)
  ELSE One \div 10

RuleProgress(a) ==
  LET w == [n \in DOMAIN a.tasks |->
              IF n \in DOMAIN a.task_history THEN a.task_history[n].weight ELSE DefaultWeight]
      c == [n \in DOMAIN a.tasks |-> w[n] * RuleContribution(a, n)]
  IN clamp(SumOver(DOMAIN c, c) \div SumOver(DOMAIN w, w), 0, One)

AggregationRule(a) ==
  LET T == DOMAIN a.tasks IN
  IF T = {} THEN Idle
  ELSE IF \A n \in T : a.tasks[n] = "Success" THEN Complete
  ELSE IF (\A n \in T : a.tasks[n] \in Resolved) /\ (\E n \in T : a.tasks[n] = "Failed")
    THEN Failed
  ELSE IF \A n \in T : a.tasks[n] = "Pending" THEN Idle
  ELSE Running(RuleProgress(a))

MatchesRule == app.task_state = AggregationRule(app)

\* C6 as stated: after every message the stored build state equals the
\* aggregation rule applied to the current task map.
C6_StateMatchesRule == MatchesRule

\* C6 amended: the stored build state equals the aggregation rule after every
\* UpdateTask message and after every later message up to the next
\* BuildProgress or reset key press (and from start-up up to the first of them).
C6_StateMatchesRuleAfterUpdateTask == synced => MatchesRule

\* a progress report recomputed a Running state that still equals the rule
C6_Witness ==
  /\ synced
  /\ lastMsg = "TaskProgress"
  /\ app.task_state.kind = "Running"
  /\ app.task_state.progress = One \div 2
  /\ MatchesRule

\* C7: while the overall start instant is set and no reset intervenes, the
\* progress of a Running build state never decreases across an UpdateTask,
\* TaskProgress or Tick message (checked under SpecProgress, whose messages
\* are these and the reset key press).
C7_ProgressNeverDecreases ==
  [][( /\ app.overall_start_time # None
       /\ lastMsg' \in {"UpdateTask", "TaskProgress", "Tick"}
       /\ app.task_state.kind = "Running"
       /\ app'.task_state.kind = "Running")
       => app'.task_state.progress >= app.task_state.progress]_vars

\* C8: whenever the build state is Running its progress lies in [0,1].
C8_RunningProgressInUnitInterval ==
  app.task_state.kind = "Running"
    => (0 <= app.task_state.progress /\ app.task_state.progress <= One)

\* C9: the build state is Complete or Failed only if no task of the task map
\* is Pending or InProgress.
C9_TerminalStateMeansAllResolved ==
  app.task_state.kind \in {"Complete", "Failed"}
    => \A n \in DOMAIN app.tasks : app.tasks[n] \notin Unresolved

\* the build state is Failed over several tasks, after a reset
C9_Witness ==
  /\ app.task_state.kind = "Failed"
  /\ everReset
  /\ \E n \in DOMAIN app.tasks : app.tasks[n] = "Success"

\* C10 as stated: the overall start instant is set iff a task went
\* Pending -> InProgress since the last reset (or since start-up).
C10_StartSetIffStartedSinceReset ==
  (app.overall_start_time # None) <=> startedSinceReset

\* C10 amended: the overall start instant is set iff a reset has been performed
\* or a task went Pending -> InProgress since start-up.
C10_StartSetIffStartedOrReset ==
  (app.overall_start_time # None) <=> (everReset \/ startedSinceReset)

\* the first Pending -> InProgress transition set the start instant, no reset so far
C10_Witness ==
  /\ lastMsg = "UpdateTask"
  /\ ~everReset
  /\ startedSinceReset
  /\ app.overall_start_time # None

====
